---- MODULE Spec2Model ----
(***************************************************************************)
(* State-machine model of the WAKE alarm application: the persisted alarm  *)
(* store (lib/alarm-store), the scheduler and its short-id -> UUID bridge  *)
(* (lib/alarm-scheduler.ts), the AlarmKit wrapper (modules/alarm-kit) and  *)
(* the native AlarmKit module with the OS alarm facility behind it.        *)
(*                                                                         *)
(* JavaScript runs one synchronous segment at a time; an async function    *)
(* is cut at each await of a native call.  A native call is issued by a    *)
(* segment (req = "sent"), takes effect in the native module at some later *)
(* step (NativeExec, req = "replied") and its continuation runs later      *)
(* still (Resume).  Awaits that resolve without a native call (microtasks) *)
(* are part of the segment that reaches them.  soundChoice is left out:    *)
(* it is passed through to the facility and decides no branch.             *)
(***************************************************************************)
EXTENDS Integers, Sequences, FiniteSets, TLC

\* ------------------------------------------------------------------ bounds
MaxCalls == 2      \* scheduler invocations (scheduleAlarm/cancelAlarm/cancelAllAlarms) per run
MaxUUID == 3       \* UUIDs minted per run
MaxRestarts == 1   \* process restarts per run
MaxBatches == 1    \* re-trigger chains scheduled per run
MaxFaults == 1     \* failing native and storage calls per run (re-trigger scheduler)
MaxBeatmaps == 3   \* beatmaps generated per rhythm session
MaxSoundCalls == 3 \* playAlarm and stop calls of the sound manager per run
MaxCompletions == 2 \* correct presses per CodeChallenge session

IdOrder == <<"a1", "a2">>         \* the short ids generateId returns, in this order
AlarmIds == {IdOrder[k] : k \in 1..Len(IdOrder)}
UUIDs == 1..MaxUUID
NoUUID == 0                       \* Map.get(...) === undefined
NoId == "null"                    \* activeAlarmId === null / no alarm id argument

\* enabledDays vectors (index 1..7 here = index 0..6 in the source, Mon..Sun)
NoDays == <<FALSE, FALSE, FALSE, FALSE, FALSE, FALSE, FALSE>>
MonWed == <<TRUE, FALSE, TRUE, FALSE, FALSE, FALSE, FALSE>>
DayVecs == {NoDays, MonWed}
Times == {[hour |-> 7, minute |-> 0]}

\* "now" as read by new Date(): day 0 is a Monday
Nows == {[day |-> 1, hour |-> 8, minute |-> 0], [day |-> 2, hour |-> 6, minute |-> 0]}
NoDate == [day |-> -1, hour |-> 0, minute |-> 0]

AuthStatuses == {"authorized", "denied", "notDetermined"}

VARIABLES
  platformIOS,        \* Platform.OS === 'ios' (NativeModule is non-null)
  alarms,             \* store: persisted Alarm[]
  usedIds,            \* ids generateId has returned so far
  activeAlarmId,      \* store: transient
  isRinging,          \* store: transient
  challengeStartTime, \* store: transient ("null" or "set")
  alarmUUIDs,         \* scheduler: in-memory Map short id -> UUID
  minted,             \* minted[u] = short id UUID u was generated for
  live,               \* OS facility: UUID -> schedule registered with AlarmManager
  scheduledAlarmIds,  \* native module: in-memory Set<UUID>
  calls,              \* scheduler invocations, in order of their start
  restarts,           \* process restarts so far
  retriggerUUIDs,     \* re-trigger scheduler: in-memory Map short id -> UUID[]
  storedRetriggers,   \* AsyncStorage item 'wake-retrigger-uuids'
  rtMinted,           \* the re-trigger UUIDs generateUUID() has made: the short id each
                      \* was made for, and whether the scheduleAlarm call that recorded
                      \* it in retriggerUUIDs has returned
  rtLive,             \* OS facility: the re-trigger one-shots registered, <<UUID, timestamp>>
  rt,                 \* re-trigger scheduler: the invocation in progress
  loaded,             \* loadRetriggerUUIDs has run in this process
  faults,             \* native and storage calls that have failed so far
  probe,              \* a call of one of the scheduler's pure helpers: arguments, result
  rhythm,             \* the RhythmChallenge component: its state, refs, animations, timers
  mathChallenge,      \* the MathChallenge component: its state
  soundManager,       \* the SoundManager singleton, the sounds it has created and
                      \* its playAlarm and stop calls
  codeChallenge       \* the CodeChallenge component: its state and refs

retriggerVars == <<retriggerUUIDs, storedRetriggers, rtMinted, rtLive, rt, loaded, faults>>

\* the state outside the store, the scheduler and the native module
asideVars == <<retriggerVars, probe, rhythm, mathChallenge, soundManager, codeChallenge>>

vars == <<platformIOS, alarms, usedIds, activeAlarmId, isRinging, challengeStartTime,
          alarmUUIDs, minted, live, scheduledAlarmIds, calls, restarts, asideVars>>

storeVars == <<alarms, usedIds, activeAlarmId, isRinging, challengeStartTime>>

NoSched == [kind |-> "none"]
KeepTime == [hour |-> -1, minute |-> -1]   \* "time" key absent from a Partial update
KeepDays == <<>>                           \* "enabledDays" key absent from a Partial update

\* ------------------------------------------------------------ pure helpers

\* toAlarmKitWeekdays: push mapping[i] for every enabled index, in index order
\* the table with Sunday as 0, the numbering of Date.getDay()
WeekdayMappingSundayZero == <<1, 2, 3, 4, 5, 6, 0>>

WeekdayMapping == <<2, 3, 4, 5, 6, 7, 1>>

RECURSIVE WeekdaysFrom(_, _)
WeekdaysFrom(enabledDays, i) ==
  IF i > Len(enabledDays) THEN <<>>
  ELSE (IF enabledDays[i] THEN <<WeekdayMapping[i]>> ELSE <<>>)
         \o WeekdaysFrom(enabledDays, i + 1)

toAlarmKitWeekdays(enabledDays) == WeekdaysFrom(enabledDays, 1)

\* Date.getDay(): 0 = Sunday .. 6 = Saturday; day 0 of the model is a Monday
GetDay(day) == (day + 1) % 7

\* Date.getTime(), in minutes
GetTime(d) == d.day * 1440 + d.hour * 60 + d.minute

\* NextTriggerFrom accepting a candidate that is not after now
RECURSIVE NextTriggerFromNotPast(_, _, _, _, _)
NextTriggerFromNotPast(now, hour, minute, enabledDays, offset) ==
  IF offset >= 7 THEN NoDate
  ELSE LET candidate == [day |-> now.day + offset, hour |-> hour, minute |-> minute]
           jsDay == GetDay(candidate.day)
           dayIndex == IF jsDay = 0 THEN 6 ELSE jsDay - 1
       IN IF ~enabledDays[dayIndex + 1]
            THEN NextTriggerFromNotPast(now, hour, minute, enabledDays, offset + 1)
          ELSE IF offset = 0 /\ GetTime(candidate) < GetTime(now)
            THEN NextTriggerFromNotPast(now, hour, minute, enabledDays, offset + 1)
          ELSE candidate

RECURSIVE NextTriggerFrom(_, _, _, _, _)
NextTriggerFrom(now, hour, minute, enabledDays, offset) ==
  IF offset >= 7 THEN NoDate
  ELSE LET candidate == [day |-> now.day + offset, hour |-> hour, minute |-> minute]
           jsDay == GetDay(candidate.day)
           dayIndex == IF jsDay = 0 THEN 6 ELSE jsDay - 1
       IN IF ~enabledDays[dayIndex + 1]
            THEN NextTriggerFrom(now, hour, minute, enabledDays, offset + 1)
          ELSE IF offset = 0 /\ GetTime(candidate) <= GetTime(now)
            THEN NextTriggerFrom(now, hour, minute, enabledDays, offset + 1)
          ELSE candidate

getNextTriggerDate(now, hour, minute, enabledDays) ==
  NextTriggerFrom(now, hour, minute, enabledDays, 0)

\* alarms.find((a) => a.id === id): index in the array, 0 when absent
FindIndex(as, id) ==
  IF \E i \in 1..Len(as) : as[i].id = id
    THEN CHOOSE i \in 1..Len(as) : as[i].id = id /\ \A j \in 1..(i - 1) : as[j].id # id
    ELSE 0

StoreIds(as) == {as[i].id : i \in 1..Len(as)}

\* ---------------------------------------------------------- call records
\* One record per scheduler invocation.  pc is the await the invocation is
\* suspended at; req/reply are its native call in flight; uuid is its local
\* `uuid`.  The remaining fields record what the invocation did (log: its
\* external calls "x!" and their returns "x?", in order).  A finished
\* invocation is "done" in the state it finishes in and "retired" (blank)
\* from the next step on.  by names the store action that made the call when
\* the properties need it.

BlankCall ==
  [kind |-> "none", id |-> NoId, time |-> [hour |-> 0, minute |-> 0], enabledDays |-> NoDays,
   pc |-> "done", req |-> "none", reply |-> "none", uuid |-> NoUUID,
   log |-> <<>>, onRecord |-> NoUUID, succ |-> FALSE, accepted |-> FALSE,
   cancelled |-> <<>>, auth |-> "none", mintedNew |-> FALSE,
   recurArgs |-> <<>>, recurRes |-> "none",
   now |-> NoDate, date |-> NoDate, fixedArgs |-> <<>>, fixedRes |-> "none",
   by |-> "none"]

RetiredCall == [BlankCall EXCEPT !.pc = "retired"]

InFlight(c) == c.pc \notin {"done", "retired"}
Quiescent == \A i \in 1..Len(calls) : ~InFlight(calls[i])

\* the invocations with what they did forgotten once they have finished
Retired == [i \in 1..Len(calls) |-> IF InFlight(calls[i]) THEN calls[i] ELSE RetiredCall]

\* A new invocation c joins the list.  Recorded with it, for the properties:
\* the UUID on record for its alarm when it starts, and whether it directly
\* follows a finished scheduleAlarm of the same alarm that registered a schedule.
Begin(c) ==
  LET n == Len(calls)
  IN Append(Retired,
            [c EXCEPT !.onRecord = IF c.id = NoId THEN NoUUID ELSE alarmUUIDs[c.id],
                      !.succ = /\ n > 0
                               /\ calls[n].pc = "done"
                               /\ calls[n].kind = "schedule"
                               /\ calls[n].id = c.id
                               /\ calls[n].accepted])

\* the sound manager before any playback: this.sound is null (0), no sound
\* has been created; calls lists the playAlarm and stop calls with the await
\* each is suspended at, and quiet says that a stop call has completed and no
\* playAlarm call has started since
NoSoundManager == [sound |-> 0, sounds |-> <<>>, calls |-> <<>>, quiet |-> FALSE]

\* the challenge screen has not mounted CodeChallenge; usedIds is
\* usedIdsRef.current as the set of ids it lists, flash says the flash
\* animation is running
NoCodeProblem == [id |-> "none", options |-> 0, correctIndex |-> 0]

CodeNotMounted ==
  [mounted |-> FALSE, problem |-> NoCodeProblem, isFlashing |-> FALSE, usedIds |-> {},
   flash |-> FALSE, completions |-> 0]

\* ------------------------------------------------------------------ Init

\* the invocation record of the scheduler with re-triggers: pc is the await
\* it is suspended at, after is where it goes on once cancelRetriggers has
\* returned, pending the UUID list cancelRetriggers iterates over, k the loop
\* index, uuids the list scheduleRetriggers builds
IdleCall ==
  [kind |-> "none", id |-> NoId, time |-> [hour |-> 0, minute |-> 0], enabledDays |-> NoDays,
   pc |-> "done", after |-> "done", uuid |-> NoUUID, timestamp |-> 0,
   pending |-> <<>>, k |-> 0, cur |-> NoUUID, uuids |-> <<>>, baseTime |-> 0, now |-> 0]

NoRetriggers == [a \in AlarmIds |-> <<>>]

\* ------------------------------------------------- the rhythm challenge

REQUIRED_CONSECUTIVE == 5
PERFECT_WINDOW_MS == 50
GOOD_WINDOW_MS == 120
DIFFICULTY == 3

\* DIFFICULTY_MAP: beats per minute and number of targets of a difficulty
DIFFICULTY_MAP ==
  <<[bpm |-> 60, targetCount |-> 5],
    [bpm |-> 75, targetCount |-> 6],
    [bpm |-> 90, targetCount |-> 7],
    [bpm |-> 105, targetCount |-> 8],
    [bpm |-> 120, targetCount |-> 8]>>

\* beatIntervalRef.current = 60000 / beatmap.bpm, in whole milliseconds
BeatInterval == 60000 \div DIFFICULTY_MAP[DIFFICULTY].bpm

NoTap == [elapsed |-> 0, result |-> "none"]

\* the challenge screen has not mounted the component
NotMounted ==
  [mounted |-> FALSE, beatmap |-> 0, currentIndex |-> 0, consecutiveHits |-> 0,
   containerSize |-> 0, hitFlash |-> "null", isMissAnimating |-> FALSE,
   isAdvancing |-> FALSE, completedRef |-> FALSE,
   approach |-> FALSE, missAnimation |-> FALSE, advanceTimer |-> FALSE,
   completeTimer |-> FALSE, completions |-> 0,
   streak |-> 0, tap |-> NoTap,
   endedAt |-> 0, dropped |-> NoTap, ranOut |-> FALSE]

\* ---------------------------------------------------- the math challenge

NoProblem == [form |-> "none", op |-> "none", a |-> 0, b |-> 0, c |-> 0,
              answer |-> 0, difficulty |-> 0]

\* the challenge screen has not mounted the component
MathNotMounted ==
  [mounted |-> FALSE, currentProblem |-> NoProblem, userInput |-> <<>>,
   generated |-> 0, submitted |-> "none", completed |-> FALSE]

InitRetrigger ==
  /\ retriggerUUIDs = NoRetriggers
  /\ storedRetriggers = [present |-> FALSE, entries |-> NoRetriggers]
  /\ rtMinted = <<>>
  /\ rtLive = {}
  /\ rt = IdleCall
  /\ loaded = FALSE
  /\ faults = 0


InitApp ==
  /\ platformIOS \in BOOLEAN
  /\ alarms = <<>>
  /\ usedIds = {}
  /\ activeAlarmId = NoId
  /\ isRinging = FALSE
  /\ challengeStartTime = "null"
  /\ alarmUUIDs = [a \in AlarmIds |-> NoUUID]
  /\ minted = <<>>
  /\ live = [u \in UUIDs |-> NoSched]
  /\ scheduledAlarmIds = {}
  /\ calls = <<>>
  /\ restarts = 0
  /\ InitRetrigger
  /\ rhythm = NotMounted
  /\ mathChallenge = MathNotMounted
  /\ soundManager = NoSoundManager
  /\ codeChallenge = CodeNotMounted

\* no helper is being called
NoProbe ==
  [fn |-> "none", now |-> NoDate, hour |-> 0, minute |-> 0, enabledDays |-> NoDays,
   pc |-> "returned", date |-> NoDate, weekdays |-> <<>>]

Init == InitApp /\ probe = NoProbe

\* ------------------------------------------- scheduler: first segments

\* ScheduleStart with the native cancel issued but not awaited
ScheduleStartNoAwait(alarm) ==
  LET uuid == alarmUUIDs[alarm.id]
      base == [BlankCall EXCEPT !.kind = "schedule", !.id = alarm.id, !.time = alarm.time,
                                !.enabledDays = alarm.enabledDays]
  IN IF uuid # NoUUID
       THEN [base EXCEPT !.pc = "auth", !.req = "sent", !.uuid = uuid,
                         !.cancelled = <<uuid>>, !.log = <<"cancel!", "auth!">>]
       ELSE [base EXCEPT !.pc = "auth", !.req = "sent", !.log = <<"auth!">>]

\* scheduleAlarm(alarm) up to its first await of a native call: cancelAlarm
\* reads the map and, if a UUID is on record, issues the native cancel;
\* otherwise requestPermissions issues requestAuthorization (which answers
\* 'denied' without a native call when NativeModule is null).
ScheduleStart(alarm) ==
  LET uuid == alarmUUIDs[alarm.id]
      base == [BlankCall EXCEPT !.kind = "schedule", !.id = alarm.id, !.time = alarm.time,
                                !.enabledDays = alarm.enabledDays]
  IN IF uuid # NoUUID
       THEN [base EXCEPT !.pc = "cancel", !.req = "sent", !.uuid = uuid,
                         !.cancelled = <<uuid>>, !.log = <<"cancel!">>]
     ELSE IF platformIOS
       THEN [base EXCEPT !.pc = "auth", !.req = "sent", !.log = <<"auth!">>]
     ELSE [base EXCEPT !.pc = "done", !.auth = "denied", !.log = <<"auth!", "auth?">>]

\* cancelAlarm(alarmId) up to its await: the native cancel is issued only
\* when a UUID is on record; the map entry is deleted after the await.
CancelStart(alarmId) ==
  LET uuid == alarmUUIDs[alarmId]
      base == [BlankCall EXCEPT !.kind = "cancel", !.id = alarmId]
  IN IF uuid # NoUUID
       THEN [base EXCEPT !.pc = "cancel", !.req = "sent", !.uuid = uuid,
                         !.cancelled = <<uuid>>, !.log = <<"cancel!">>]
       ELSE [base EXCEPT !.pc = "done"]

\* cancelAllAlarms() up to its await
CancelAllStart ==
  LET base == [BlankCall EXCEPT !.kind = "cancelAll"]
  IN IF platformIOS
       THEN [base EXCEPT !.pc = "cancelAll", !.req = "sent", !.log = <<"cancelAll!">>]
       ELSE [base EXCEPT !.pc = "done", !.reply = "false",
                         !.log = <<"cancelAll!", "cancelAll?">>]

CanCall == Len(calls) < MaxCalls

\* --------------------------------------------------------- store actions

\* generateId(): Date.now() in base 36 followed by random digits, a fresh
\* id that sorts after the earlier ones
generateId == IdOrder[Cardinality(usedIds) + 1]

\* addAlarm(alarm): generateId, append, scheduleAlarm(newAlarm) if armed
AddAlarm ==
  \E t \in Times, d \in DayVecs, armed \in BOOLEAN :
    LET id == generateId
        newAlarm == [id |-> id, time |-> t, enabledDays |-> d, isArmed |-> armed]
    IN /\ Cardinality(usedIds) < Len(IdOrder)
       /\ armed => CanCall
       /\ alarms' = Append(alarms, newAlarm)
       /\ usedIds' = usedIds \cup {id}
       /\ calls' = IF armed THEN Begin(ScheduleStart(newAlarm)) ELSE Retired
       /\ UNCHANGED <<asideVars, platformIOS, activeAlarmId, isRinging, challengeStartTime,
                      alarmUUIDs, minted, live, scheduledAlarmIds, restarts>>

\* scheduleAlarm(a) if a.isArmed else cancelAlarm(id): the tail shared by
\* updateAlarm and toggleAlarm, on the alarm found after the set()
Reschedule(as, id) ==
  LET i == FindIndex(as, id)
  IN IF i = 0 THEN Retired
     ELSE IF as[i].isArmed THEN Begin(ScheduleStart(as[i]))
     ELSE Begin(CancelStart(id))

\* { ...a, ...updates } for a Partial update
Merge(a, t, d, armed) ==
  [id |-> a.id,
   time |-> IF t = KeepTime THEN a.time ELSE t,
   enabledDays |-> IF d = KeepDays THEN a.enabledDays ELSE d,
   isArmed |-> IF armed = "keep" THEN a.isArmed ELSE (armed = "true")]

\* updateAlarm(id, updates): the alarm is replaced by the merge and the
\* scheduler call is started, not awaited
UpdateAlarmTo(id, t, d, armed) ==
  LET updatedAlarms == [i \in 1..Len(alarms) |->
                          IF alarms[i].id = id THEN Merge(alarms[i], t, d, armed)
                          ELSE alarms[i]]
  IN /\ id \in StoreIds(alarms) => CanCall
     /\ alarms' = updatedAlarms
     /\ calls' = Reschedule(updatedAlarms, id)
     /\ UNCHANGED <<asideVars, platformIOS, usedIds, activeAlarmId, isRinging, challengeStartTime,
                    alarmUUIDs, minted, live, scheduledAlarmIds, restarts>>

\* updateAlarm(id, updates)
UpdateAlarm ==
  \E id \in usedIds, t \in Times \cup {KeepTime}, d \in DayVecs \cup {KeepDays},
     armed \in {"keep", "true", "false"} :
    UpdateAlarmTo(id, t, d, armed)

\* the times the edit screen saves one after the other
UpdateTimes == {[hour |-> 8, minute |-> 30], [hour |-> 9, minute |-> 15]}

\* updateAlarm(id, { time })
UpdateAlarmTime ==
  \E id \in usedIds, t \in UpdateTimes : UpdateAlarmTo(id, t, KeepDays, "keep")

\* a.id !== id filter of deleteAlarm
RECURSIVE Without(_, _)
Without(as, id) ==
  IF as = <<>> THEN <<>>
  ELSE (IF Head(as).id # id THEN <<Head(as)>> ELSE <<>>) \o Without(Tail(as), id)

\* deleteAlarm(id): cancelAlarm(id) is started first, then the alarm is removed
DeleteAlarm ==
  \E id \in usedIds :
    /\ CanCall
    /\ calls' = Begin(CancelStart(id))
    /\ alarms' = Without(alarms, id)
    /\ UNCHANGED <<asideVars, platformIOS, usedIds, activeAlarmId, isRinging, challengeStartTime,
                   alarmUUIDs, minted, live, scheduledAlarmIds, restarts>>

\* toggleAlarm(id)
ToggleAlarm ==
  \E id \in usedIds :
    LET toggledAlarms == [i \in 1..Len(alarms) |->
                            IF alarms[i].id = id
                              THEN [alarms[i] EXCEPT !.isArmed = ~alarms[i].isArmed]
                              ELSE alarms[i]]
    IN /\ id \in StoreIds(alarms) => CanCall
       /\ alarms' = toggledAlarms
       /\ calls' = Reschedule(toggledAlarms, id)
       /\ UNCHANGED <<asideVars, platformIOS, usedIds, activeAlarmId, isRinging, challengeStartTime,
                      alarmUUIDs, minted, live, scheduledAlarmIds, restarts>>

\* setActiveAlarmId(id)
SetActiveAlarmId ==
  \E id \in usedIds \cup {NoId} :
    /\ activeAlarmId' = id
    /\ calls' = Retired
    /\ UNCHANGED <<asideVars, platformIOS, alarms, usedIds, isRinging, challengeStartTime,
                   alarmUUIDs, minted, live, scheduledAlarmIds, restarts>>

\* startRinging()
StartRinging ==
  /\ isRinging' = TRUE
  /\ calls' = Retired
  /\ UNCHANGED <<asideVars, platformIOS, alarms, usedIds, activeAlarmId, challengeStartTime,
                 alarmUUIDs, minted, live, scheduledAlarmIds, restarts>>

\* stopRinging()
StopRinging ==
  /\ isRinging' = FALSE
  /\ calls' = Retired
  /\ UNCHANGED <<asideVars, platformIOS, alarms, usedIds, activeAlarmId, challengeStartTime,
                 alarmUUIDs, minted, live, scheduledAlarmIds, restarts>>

\* startChallenge()
StartChallenge ==
  /\ challengeStartTime' = "set"
  /\ calls' = Retired
  /\ UNCHANGED <<asideVars, platformIOS, alarms, usedIds, activeAlarmId, isRinging,
                 alarmUUIDs, minted, live, scheduledAlarmIds, restarts>>

\* DismissTarget without the isArmed test
DismissTargetStored ==
  IF activeAlarmId = NoId THEN 0 ELSE FindIndex(alarms, activeAlarmId)

\* the alarm completeDismiss reschedules: the active alarm if stored and armed
DismissTarget ==
  LET i == IF activeAlarmId = NoId THEN 0 ELSE FindIndex(alarms, activeAlarmId)
  IN IF i # 0 /\ alarms[i].isArmed THEN i ELSE 0

\* completeDismiss()
CompleteDismiss ==
  /\ DismissTarget # 0 => CanCall
  /\ isRinging' = FALSE
  /\ challengeStartTime' = "null"
  /\ calls' = IF DismissTarget # 0
                THEN Begin([ScheduleStart(alarms[DismissTarget])
                              EXCEPT !.by = "completeDismiss"])
                ELSE Retired
  /\ UNCHANGED <<asideVars, platformIOS, alarms, usedIds, activeAlarmId,
                 alarmUUIDs, minted, live, scheduledAlarmIds, restarts>>

\* cancelAllAlarms(): without a native module the wrapper answers false at
\* once and the map is cleared in the same segment
CancelAllAlarms ==
  /\ CanCall
  /\ calls' = Begin(CancelAllStart)
  /\ alarmUUIDs' = IF platformIOS THEN alarmUUIDs ELSE [a \in AlarmIds |-> NoUUID]
  /\ UNCHANGED <<asideVars, platformIOS, alarms, usedIds, activeAlarmId, isRinging, challengeStartTime,
                 minted, live, scheduledAlarmIds, restarts>>

\* store.alarms.find((a) => a.isArmed): the index of the first armed alarm, or 0
RECURSIVE FirstArmedFrom(_, _)
FirstArmedFrom(as, i) ==
  IF i > Len(as) THEN 0
  ELSE IF as[i].isArmed THEN i
  ELSE FirstArmedFrom(as, i + 1)

\* checkAlarmLaunch(router) when getLaunchAlarmId() returns the UUID u that
\* the intent of the fired schedule wrote to UserDefaults
LaunchedBy(u) ==
  /\ live[u] # NoSched
  /\ LET i == FirstArmedFrom(alarms, 1)
     IN  activeAlarmId' = IF i # 0 THEN alarms[i].id ELSE activeAlarmId
  /\ calls' = Retired
  /\ UNCHANGED <<asideVars, platformIOS, alarms, usedIds, isRinging, challengeStartTime,
                 alarmUUIDs, minted, live, scheduledAlarmIds, restarts>>

\* a registered schedule fires and the user opens the app from it
CheckAlarmLaunch == \E u \in UUIDs : LaunchedBy(u)

\* ------------------------------------------- direct calls of the scheduler

\* a caller invokes the exported scheduleAlarm(alarm)
CallScheduleAlarm ==
  \E id \in AlarmIds, t \in Times, d \in DayVecs :
    /\ CanCall
    /\ calls' = Begin(ScheduleStart([id |-> id, time |-> t, enabledDays |-> d,
                                     isArmed |-> TRUE]))
    /\ UNCHANGED <<asideVars, platformIOS, storeVars, alarmUUIDs, minted, live,
                   scheduledAlarmIds, restarts>>

\* a caller invokes the exported cancelAlarm(alarmId)
CallCancelAlarm ==
  \E id \in AlarmIds :
    /\ CanCall
    /\ calls' = Begin(CancelStart(id))
    /\ UNCHANGED <<asideVars, platformIOS, storeVars, alarmUUIDs, minted, live,
                   scheduledAlarmIds, restarts>>

\* ------------------------------------------------- native AlarmKit module

Put(i, c) == [Retired EXCEPT ![i] = c]

\* AsyncFunction("cancelAlarm"): AlarmManager.cancel may throw, and then the
\* schedule stays registered and the id stays in scheduledAlarmIds
NativeCancelAlarm(i) ==
  LET c == calls[i]
  IN /\ c.pc = "cancel" /\ c.req = "sent"
     /\ \E ok \in BOOLEAN :
          /\ live' = IF ok THEN [live EXCEPT ![c.uuid] = NoSched] ELSE live
          /\ scheduledAlarmIds' = IF ok THEN scheduledAlarmIds \ {c.uuid}
                                   ELSE scheduledAlarmIds
          /\ calls' = Put(i, [c EXCEPT !.req = "replied",
                                       !.reply = IF ok THEN "true" ELSE "false"])
     /\ UNCHANGED <<asideVars, platformIOS, storeVars, alarmUUIDs, minted, restarts>>

\* AsyncFunction("requestAuthorization")
NativeRequestAuthorization(i) ==
  LET c == calls[i]
  IN /\ c.pc = "auth" /\ c.req = "sent"
     /\ \E status \in AuthStatuses :
          calls' = Put(i, [c EXCEPT !.req = "replied", !.reply = status])
     /\ UNCHANGED <<asideVars, platformIOS, storeVars, alarmUUIDs, minted, live,
                    scheduledAlarmIds, restarts>>

\* AsyncFunction("scheduleRecurringAlarm"): AlarmManager.schedule registers
\* the schedule under the UUID, or throws and registers nothing
NativeScheduleRecurringAlarm(i) ==
  LET c == calls[i]
      uuid == c.recurArgs[1]
  IN /\ c.pc = "recurring" /\ c.req = "sent"
     /\ \E ok \in BOOLEAN :
          /\ live' = IF ok
                       THEN [live EXCEPT ![uuid] = [kind |-> "recurring",
                                                    hour |-> c.recurArgs[2],
                                                    minute |-> c.recurArgs[3],
                                                    weekdays |-> c.recurArgs[4]]]
                       ELSE live
          /\ scheduledAlarmIds' = IF ok THEN scheduledAlarmIds \cup {uuid}
                                   ELSE scheduledAlarmIds
          /\ calls' = Put(i, [c EXCEPT !.req = "replied",
                                       !.accepted = c.accepted \/ ok,
                                       !.reply = IF ok THEN "true" ELSE "false"])
     /\ UNCHANGED <<asideVars, platformIOS, storeVars, alarmUUIDs, minted, restarts>>

\* AsyncFunction("scheduleFixedAlarm")
NativeScheduleFixedAlarm(i) ==
  LET c == calls[i]
      uuid == c.fixedArgs[1]
  IN /\ c.pc = "fixed" /\ c.req = "sent"
     /\ \E ok \in BOOLEAN :
          /\ live' = IF ok
                       THEN [live EXCEPT ![uuid] = [kind |-> "fixed",
                                                    timestamp |-> c.fixedArgs[2]]]
                       ELSE live
          /\ scheduledAlarmIds' = IF ok THEN scheduledAlarmIds \cup {uuid}
                                   ELSE scheduledAlarmIds
          /\ calls' = Put(i, [c EXCEPT !.req = "replied",
                                       !.accepted = c.accepted \/ ok,
                                       !.reply = IF ok THEN "true" ELSE "false"])
     /\ UNCHANGED <<asideVars, platformIOS, storeVars, alarmUUIDs, minted, restarts>>

\* the UUIDs AsyncFunction("cancelAllAlarms") iterates over
CancelAllTargets == scheduledAlarmIds

\* AsyncFunction("cancelAllAlarms"): cancels each tracked id (any of the
\* cancels may throw), then empties scheduledAlarmIds whatever happened
NativeCancelAllAlarms(i) ==
  LET c == calls[i]
  IN /\ c.pc = "cancelAll" /\ c.req = "sent"
     /\ \E failed \in SUBSET CancelAllTargets :
          /\ live' = [u \in UUIDs |->
                        IF u \in CancelAllTargets \ failed THEN NoSched ELSE live[u]]
          /\ calls' = Put(i, [c EXCEPT !.req = "replied",
                                       !.reply = IF failed = {} THEN "true" ELSE "false"])
     /\ scheduledAlarmIds' = {}
     /\ UNCHANGED <<asideVars, platformIOS, storeVars, alarmUUIDs, minted, restarts>>

\* ------------------------------------------ scheduler: continuations

Logged(c, ev) == Append(c.log, ev)

\* alarmUUIDs.delete(alarmId)
MapDelete(alarmId) == [alarmUUIDs EXCEPT ![alarmId] = NoUUID]

\* after `await cancelNativeAlarm(uuid)`: the map entry is deleted whatever
\* the native call answered; scheduleAlarm goes on to requestPermissions
AfterCancel(i) ==
  LET c == calls[i]
      back == [c EXCEPT !.log = Logged(c, "cancel?"), !.reply = "none"]
  IN /\ c.pc = "cancel" /\ c.req = "replied"
     /\ alarmUUIDs' = MapDelete(c.id)
     /\ calls' = Put(i, IF c.kind = "schedule"
                          THEN [back EXCEPT !.pc = "auth", !.req = "sent",
                                            !.log = Append(back.log, "auth!")]
                          ELSE [back EXCEPT !.pc = "done", !.req = "none"])
     /\ UNCHANGED <<asideVars, platformIOS, storeVars, minted, live, scheduledAlarmIds, restarts>>

\* getUUID generating a UUID on every call
getUUIDAlwaysNew(alarmId) == Len(minted) + 1

\* getUUID(alarmId): the UUID on record, or a fresh one
getUUID(alarmId) ==
  IF alarmUUIDs[alarmId] # NoUUID THEN alarmUUIDs[alarmId] ELSE Len(minted) + 1

\* Permitted with only an explicit denial stopping the call
PermittedUnlessDenied(status) == status # "denied"

\* what scheduleAlarm does with the answer of requestPermissions
Permitted(status) == status = "authorized"

\* after `await requestPermissions()`: return if not granted; otherwise
\* getUUID, toAlarmKitWeekdays, return if no day is enabled, otherwise
\* issue scheduleRecurringAlarm
AfterAuthorization(i) ==
  LET c == calls[i]
      back == [c EXCEPT !.log = Logged(c, "auth?"), !.auth = c.reply, !.reply = "none"]
      uuid == getUUID(c.id)
      fresh == alarmUUIDs[c.id] = NoUUID
      weekdays == toAlarmKitWeekdays(c.enabledDays)
      got == [back EXCEPT !.uuid = uuid, !.mintedNew = fresh]
  IN /\ c.pc = "auth" /\ c.req = "replied"
     /\ IF ~Permitted(c.reply)
          THEN /\ calls' = Put(i, [back EXCEPT !.pc = "done", !.req = "none"])
               /\ UNCHANGED <<alarmUUIDs, minted>>
          ELSE /\ fresh => Len(minted) < MaxUUID
               /\ alarmUUIDs' = [alarmUUIDs EXCEPT ![c.id] = uuid]
               /\ minted' = IF fresh THEN Append(minted, c.id) ELSE minted
               /\ calls' = Put(i, IF Len(weekdays) = 0
                                    THEN [got EXCEPT !.pc = "done", !.req = "none"]
                                    ELSE [got EXCEPT !.pc = "recurring", !.req = "sent",
                                            !.recurArgs = <<uuid, c.time.hour,
                                                            c.time.minute, weekdays>>,
                                            !.log = Append(got.log, "recur!")])
     /\ UNCHANGED <<asideVars, platformIOS, storeVars, live, scheduledAlarmIds, restarts>>

\* NeedsFallback with the fallback never taken
NeverFallback(success) == FALSE

\* whether scheduleAlarm takes the one-shot fallback after the recurring answer
NeedsFallback(success) == success # "true"

\* after `await scheduleRecurringAlarm(...)`: done on success; otherwise
\* getNextTriggerDate and, if it returns a date, scheduleFixedAlarm
AfterRecurring(i) ==
  LET c == calls[i]
      back == [c EXCEPT !.log = Logged(c, "recur?"), !.recurRes = c.reply, !.reply = "none"]
  IN /\ c.pc = "recurring" /\ c.req = "replied"
     /\ IF ~NeedsFallback(c.reply)
          THEN calls' = Put(i, [back EXCEPT !.pc = "done", !.req = "none"])
          ELSE \E now \in Nows :
                 LET triggerDate == getNextTriggerDate(now, c.time.hour, c.time.minute,
                                                       c.enabledDays)
                     at == [back EXCEPT !.now = now, !.date = triggerDate]
                 IN calls' = Put(i, IF triggerDate # NoDate
                                      THEN [at EXCEPT !.pc = "fixed", !.req = "sent",
                                              !.fixedArgs = <<c.uuid, GetTime(triggerDate)>>,
                                              !.log = Append(back.log, "fixed!")]
                                      ELSE [at EXCEPT !.pc = "done", !.req = "none"])
     /\ UNCHANGED <<asideVars, platformIOS, storeVars, alarmUUIDs, minted, live,
                    scheduledAlarmIds, restarts>>

\* after `await scheduleFixedAlarm(...)`
AfterFixed(i) ==
  LET c == calls[i]
  IN /\ c.pc = "fixed" /\ c.req = "replied"
     /\ calls' = Put(i, [c EXCEPT !.pc = "done", !.req = "none", !.reply = "none",
                                  !.fixedRes = c.reply, !.log = Logged(c, "fixed?")])
     /\ UNCHANGED <<asideVars, platformIOS, storeVars, alarmUUIDs, minted, live,
                    scheduledAlarmIds, restarts>>

\* after `await cancelAllNativeAlarms()`: alarmUUIDs.clear()
AfterCancelAll(i) ==
  LET c == calls[i]
  IN /\ c.pc = "cancelAll" /\ c.req = "replied"
     /\ alarmUUIDs' = [a \in AlarmIds |-> NoUUID]
     /\ calls' = Put(i, [c EXCEPT !.pc = "done", !.req = "none",
                                  !.log = Logged(c, "cancelAll?")])
     /\ UNCHANGED <<asideVars, platformIOS, storeVars, minted, live, scheduledAlarmIds, restarts>>

\* ------------------------------------- the scheduler with re-triggers
\* The alarm scheduler that follows every primary schedule by a chain of
\* one-shot re-triggers and keeps their UUIDs in retriggerUUIDs, saved to
\* AsyncStorage.  One invocation runs at a time; each action is one await
\* being answered together with the continuation up to the next await.

RETRIGGER_COUNT == 10
RETRIGGER_INTERVAL_MS == 2 * 60 * 1000
MsPerMinute == 60 * 1000          \* GetTime counts minutes

\* generateUUID(): a fresh UUID, apart from those getUUID mints
generateUUID == MaxUUID + Len(rtMinted) + 1

\* the answers of a storage call, and of a native call (the wrappers answer
\* false without calling when NativeModule is null)
Answers == IF faults < MaxFaults THEN BOOLEAN ELSE {TRUE}
NativeAnswers == IF platformIOS THEN Answers ELSE {FALSE}
Fault(ok) == IF ok \/ ~platformIOS THEN faults ELSE faults + 1

\* the loop of scheduleRetriggers: the first i' >= i whose trigger time is
\* not past, RETRIGGER_COUNT + 1 if there is none
RECURSIVE NextOffset(_, _, _)
NextOffset(baseTime, now, i) ==
  IF i > RETRIGGER_COUNT THEN i
  ELSE IF baseTime + i * RETRIGGER_INTERVAL_MS <= now
    THEN NextOffset(baseTime, now, i + 1)
  ELSE i

\* scheduleRetriggers once its cancelRetriggers has returned: the base date,
\* then the loop up to its first scheduleFixedAlarm
StartRetriggerLoop(r, now) ==
  LET baseDate == getNextTriggerDate(now, r.time.hour, r.time.minute, r.enabledDays)
      baseTime == GetTime(baseDate) * MsPerMinute
      nowMs == GetTime(now) * MsPerMinute
      k == NextOffset(baseTime, nowMs, 1)
  IN IF baseDate = NoDate \/ k > RETRIGGER_COUNT
       THEN [r EXCEPT !.pc = "done"]
       ELSE [r EXCEPT !.pc = "retrigger", !.k = k, !.uuids = <<>>,
                      !.baseTime = baseTime, !.now = nowMs]

\* where an invocation goes on once cancelRetriggers has returned
Continue(r, now) ==
  CASE r.after = "auth" -> IF platformIOS THEN [r EXCEPT !.pc = "auth"]
                                          ELSE [r EXCEPT !.pc = "done"]
    [] r.after = "base" -> StartRetriggerLoop(r, now)
    [] OTHER -> [r EXCEPT !.pc = "done"]

\* cancelRetriggers(alarmId) up to its first await
cancelRetriggers(r, after, now) ==
  LET uuids == retriggerUUIDs[r.id]
      to == [r EXCEPT !.after = after]
  IN IF uuids # <<>>
       THEN [to EXCEPT !.pc = "cancelRetrigger", !.pending = uuids, !.k = 1]
       ELSE Continue(to, now)

\* the invocation moves on; an invocation that arrives at a scheduleFixedAlarm
\* of the re-trigger loop has called generateUUID for it, and one that
\* returns from the save after the loop has recorded its list
Step(new) ==
  /\ rt' = IF new.pc = "retrigger" THEN [new EXCEPT !.cur = generateUUID] ELSE new
  /\ rtMinted' = LET made == IF new.pc = "retrigger"
                               THEN Append(rtMinted, [id |-> new.id, recorded |-> FALSE])
                               ELSE rtMinted
                 IN IF new.pc = "done" /\ rt.pc = "save" /\ new.kind = "schedule"
                      THEN [u \in 1..Len(made) |->
                              IF \E j \in 1..Len(new.uuids) : new.uuids[j] = MaxUUID + u
                                THEN [made[u] EXCEPT !.recorded = TRUE]
                                ELSE made[u]]
                      ELSE made

\* scheduleAlarm(alarm) up to its first await: cancelAlarm's native cancel of
\* the UUID on record, or cancelRetriggers
RetriggerScheduleAlarm ==
  \E id \in AlarmIds, t \in Times, d \in DayVecs :
    LET r == [IdleCall EXCEPT !.kind = "schedule", !.id = id, !.time = t, !.enabledDays = d]
        uuid == alarmUUIDs[id]
    IN /\ rt.pc = "done"
       /\ Len(rtMinted) + RETRIGGER_COUNT <= MaxBatches * RETRIGGER_COUNT
       /\ Step(IF uuid # NoUUID
                 THEN [r EXCEPT !.pc = "cancelPrimary", !.uuid = uuid, !.after = "auth"]
                 ELSE cancelRetriggers(r, "auth", NoDate))
       /\ UNCHANGED <<codeChallenge, soundManager, mathChallenge, rhythm, probe, platformIOS, storeVars, alarmUUIDs, minted, live, scheduledAlarmIds,
                      calls, restarts, retriggerUUIDs, storedRetriggers, rtLive, loaded,
                      faults>>

\* cancelAlarm(alarmId) up to its first await
RetriggerCancelAlarm ==
  \E id \in AlarmIds :
    LET r == [IdleCall EXCEPT !.kind = "cancel", !.id = id]
        uuid == alarmUUIDs[id]
    IN /\ rt.pc = "done"
       /\ Step(IF uuid # NoUUID
                 THEN [r EXCEPT !.pc = "cancelPrimary", !.uuid = uuid, !.after = "done"]
                 ELSE cancelRetriggers(r, "done", NoDate))
       /\ UNCHANGED <<codeChallenge, soundManager, mathChallenge, rhythm, probe, platformIOS, storeVars, alarmUUIDs, minted, live, scheduledAlarmIds,
                      calls, restarts, retriggerUUIDs, storedRetriggers, rtLive, loaded,
                      faults>>

\* initializeScheduler(): loadRetriggerUUIDs replaces the map by the saved
\* entries if the item exists; a failing read is logged and nothing else
InitializeScheduler ==
  /\ rt.pc = "done"
  /\ \E ok \in Answers :
       /\ retriggerUUIDs' = IF ok /\ storedRetriggers.present
                              THEN storedRetriggers.entries
                              ELSE retriggerUUIDs
       /\ faults' = IF ok THEN faults ELSE faults + 1
  /\ loaded' = TRUE
  /\ rt' = [IdleCall EXCEPT !.kind = "initialize"]
  /\ UNCHANGED <<codeChallenge, soundManager, mathChallenge, rhythm, probe, platformIOS, storeVars, alarmUUIDs, minted, live, scheduledAlarmIds,
                 calls, restarts, storedRetriggers, rtMinted, rtLive>>

\* cancelAlarm after `await cancelNativeAlarm(uuid)`: the map entry is
\* deleted, then cancelRetriggers
RetriggerAfterCancelPrimary ==
  /\ rt.pc = "cancelPrimary"
  /\ \E ok \in NativeAnswers :
       /\ live' = IF ok THEN [live EXCEPT ![rt.uuid] = NoSched] ELSE live
       /\ scheduledAlarmIds' = IF ok THEN scheduledAlarmIds \ {rt.uuid} ELSE scheduledAlarmIds
       /\ faults' = Fault(ok)
  /\ alarmUUIDs' = MapDelete(rt.id)
  /\ Step(cancelRetriggers(rt, rt.after, NoDate))
  /\ UNCHANGED <<codeChallenge, soundManager, mathChallenge, rhythm, probe, platformIOS, storeVars, minted, calls, restarts,
                 retriggerUUIDs, storedRetriggers, rtLive, loaded>>

\* cancelRetriggers after `await cancelNativeAlarm(uuid)` of one re-trigger:
\* the next one, or, after the last, the entry is deleted whatever the
\* cancels answered and saveRetriggerUUIDs is called
RetriggerAfterCancelRetrigger ==
  /\ rt.pc = "cancelRetrigger"
  /\ \E ok \in NativeAnswers :
       /\ rtLive' = IF ok THEN {x \in rtLive : x[1] # rt.pending[rt.k]} ELSE rtLive
       /\ scheduledAlarmIds' = IF ok THEN scheduledAlarmIds \ {rt.pending[rt.k]}
                                ELSE scheduledAlarmIds
       /\ faults' = Fault(ok)
  /\ IF rt.k < Len(rt.pending)
       THEN /\ Step([rt EXCEPT !.k = rt.k + 1])
            /\ UNCHANGED retriggerUUIDs
       ELSE /\ Step([rt EXCEPT !.pc = "save"])
            /\ retriggerUUIDs' = [retriggerUUIDs EXCEPT ![rt.id] = <<>>]
  /\ UNCHANGED <<codeChallenge, soundManager, mathChallenge, rhythm, probe, platformIOS, storeVars, alarmUUIDs, minted, live, calls, restarts,
                 storedRetriggers, loaded>>

\* after `await saveRetriggerUUIDs()`: the entries are written, or the
\* write fails and is logged; the caller goes on
RetriggerAfterSave ==
  /\ rt.pc = "save"
  /\ \E ok \in Answers, now \in Nows :
       /\ storedRetriggers' = IF ok THEN [present |-> TRUE, entries |-> retriggerUUIDs]
                                ELSE storedRetriggers
       /\ faults' = IF ok THEN faults ELSE faults + 1
       /\ Step(Continue(rt, now))
  /\ UNCHANGED <<codeChallenge, soundManager, mathChallenge, rhythm, probe, platformIOS, storeVars, alarmUUIDs, minted, live, scheduledAlarmIds,
                 calls, restarts, retriggerUUIDs, rtLive, loaded>>

\* scheduleAlarm after `await requestPermissions()`
RetriggerAfterAuthorization ==
  /\ rt.pc = "auth"
  /\ \E status \in AuthStatuses :
       LET uuid == getUUID(rt.id)
           fresh == alarmUUIDs[rt.id] = NoUUID
           weekdays == toAlarmKitWeekdays(rt.enabledDays)
       IN IF ~Permitted(status)
            THEN /\ Step([rt EXCEPT !.pc = "done"])
                 /\ UNCHANGED <<alarmUUIDs, minted>>
            ELSE /\ fresh => Len(minted) < MaxUUID
                 /\ alarmUUIDs' = [alarmUUIDs EXCEPT ![rt.id] = uuid]
                 /\ minted' = IF fresh THEN Append(minted, rt.id) ELSE minted
                 /\ Step(IF Len(weekdays) = 0
                           THEN [rt EXCEPT !.pc = "done", !.uuid = uuid]
                           ELSE [rt EXCEPT !.pc = "recurring", !.uuid = uuid])
  /\ UNCHANGED <<codeChallenge, soundManager, mathChallenge, rhythm, probe, platformIOS, storeVars, live, scheduledAlarmIds, calls, restarts,
                 retriggerUUIDs, storedRetriggers, rtLive, loaded, faults>>

\* scheduleAlarm after `await scheduleRecurringAlarm(...)`: the one-shot
\* fallback if it answered false and there is a next date, then
\* scheduleRetriggers
RetriggerAfterRecurring ==
  /\ rt.pc = "recurring"
  /\ \E ok \in NativeAnswers, now \in Nows :
       LET triggerDate == getNextTriggerDate(now, rt.time.hour, rt.time.minute,
                                             rt.enabledDays)
       IN /\ live' = IF ok
                       THEN [live EXCEPT ![rt.uuid] =
                               [kind |-> "recurring", hour |-> rt.time.hour,
                                minute |-> rt.time.minute,
                                weekdays |-> toAlarmKitWeekdays(rt.enabledDays)]]
                       ELSE live
          /\ scheduledAlarmIds' = IF ok THEN scheduledAlarmIds \cup {rt.uuid}
                                   ELSE scheduledAlarmIds
          /\ faults' = Fault(ok)
          /\ Step(IF NeedsFallback(IF ok THEN "true" ELSE "false") /\ triggerDate # NoDate
                    THEN [rt EXCEPT !.pc = "fixed", !.timestamp = GetTime(triggerDate)]
                    ELSE cancelRetriggers(rt, "base", now))
  /\ UNCHANGED <<codeChallenge, soundManager, mathChallenge, rhythm, probe, platformIOS, storeVars, alarmUUIDs, minted, calls, restarts,
                 retriggerUUIDs, storedRetriggers, rtLive, loaded>>

\* scheduleAlarm after `await scheduleFixedAlarm(...)`: scheduleRetriggers
RetriggerAfterFixed ==
  /\ rt.pc = "fixed"
  /\ \E ok \in NativeAnswers, now \in Nows :
       /\ live' = IF ok
                    THEN [live EXCEPT ![rt.uuid] = [kind |-> "fixed",
                                                    timestamp |-> rt.timestamp]]
                    ELSE live
       /\ scheduledAlarmIds' = IF ok THEN scheduledAlarmIds \cup {rt.uuid}
                                ELSE scheduledAlarmIds
       /\ faults' = Fault(ok)
       /\ Step(cancelRetriggers(rt, "base", now))
  /\ UNCHANGED <<codeChallenge, soundManager, mathChallenge, rhythm, probe, platformIOS, storeVars, alarmUUIDs, minted, calls, restarts,
                 retriggerUUIDs, storedRetriggers, rtLive, loaded>>

\* scheduleRetriggers after `await scheduleFixedAlarm(uuid, triggerTime, ...)`:
\* the UUID is pushed whatever the call answered; after the last one the
\* list is set for the alarm and saveRetriggerUUIDs is called
RetriggerAfterRetrigger ==
  /\ rt.pc = "retrigger"
  /\ \E ok \in NativeAnswers :
       /\ rtLive' = IF ok
                      THEN rtLive \cup {<<rt.cur, rt.baseTime + rt.k * RETRIGGER_INTERVAL_MS>>}
                      ELSE rtLive
       /\ scheduledAlarmIds' = IF ok THEN scheduledAlarmIds \cup {rt.cur}
                                ELSE scheduledAlarmIds
       /\ faults' = Fault(ok)
  /\ LET uuids == Append(rt.uuids, rt.cur)
         k == NextOffset(rt.baseTime, rt.now, rt.k + 1)
     IN IF k <= RETRIGGER_COUNT
          THEN /\ Step([rt EXCEPT !.uuids = uuids, !.k = k])
               /\ UNCHANGED retriggerUUIDs
          ELSE /\ Step([rt EXCEPT !.uuids = uuids, !.pc = "save", !.after = "done"])
               /\ retriggerUUIDs' = [retriggerUUIDs EXCEPT ![rt.id] = uuids]
  /\ UNCHANGED <<codeChallenge, soundManager, mathChallenge, rhythm, probe, platformIOS, storeVars, alarmUUIDs, minted, live, calls, restarts,
                 storedRetriggers, loaded>>

\* --------------------------------------------------------------- restart

\* The process is killed and relaunched: the JS heap (alarmUUIDs, the
\* transient store fields, every pending continuation) and the native
\* module's scheduledAlarmIds are gone; the persisted alarms are rehydrated
\* and the schedules registered with the OS stay registered.
Restart ==
  /\ restarts < MaxRestarts
  /\ restarts' = restarts + 1
  /\ alarmUUIDs' = [a \in AlarmIds |-> NoUUID]
  /\ scheduledAlarmIds' = {}
  /\ activeAlarmId' = NoId
  /\ isRinging' = FALSE
  /\ challengeStartTime' = "null"
  /\ calls' = [i \in 1..Len(calls) |-> RetiredCall]
  /\ retriggerUUIDs' = NoRetriggers
  /\ rt' = IdleCall
  /\ loaded' = FALSE
  /\ UNCHANGED <<platformIOS, alarms, usedIds, minted, live,
                 storedRetriggers, rtMinted, rtLive, faults, probe, rhythm, mathChallenge, soundManager, codeChallenge>>

\* ------------------------------------------------------- specifications

StoreStep ==
  \/ AddAlarm
  \/ UpdateAlarm
  \/ DeleteAlarm
  \/ ToggleAlarm
  \/ SetActiveAlarmId
  \/ CompleteDismiss
  \/ CancelAllAlarms

NativeStep ==
  \E i \in 1..Len(calls) :
    \/ NativeCancelAlarm(i)
    \/ NativeRequestAuthorization(i)
    \/ NativeScheduleRecurringAlarm(i)
    \/ NativeScheduleFixedAlarm(i)
    \/ NativeCancelAllAlarms(i)

ResumeStep ==
  \E i \in 1..Len(calls) :
    \/ AfterCancel(i)
    \/ AfterAuthorization(i)
    \/ AfterRecurring(i)
    \/ AfterFixed(i)
    \/ AfterCancelAll(i)

\* the application: user actions arrive at any time and the store starts
\* scheduler calls without awaiting them
Next == StoreStep \/ NativeStep \/ ResumeStep \/ Restart

Spec == Init /\ [][Next]_vars

\* the application when no store action arrives while a scheduler call is
\* in flight
NextSeq == (Quiescent /\ StoreStep) \/ NativeStep \/ ResumeStep \/ Restart

SpecSeq == Init /\ [][NextSeq]_vars

\* the application with the ringing and challenge transitions of the firing
\* screen, no store action arriving while a scheduler call is in flight
RingStep ==
  \/ StartRinging
  \/ StopRinging
  \/ StartChallenge

NextChallenge == (Quiescent /\ (StoreStep \/ RingStep)) \/ NativeStep \/ ResumeStep \/ Restart

SpecChallenge == Init /\ [][NextChallenge]_vars

\* the scheduler module on its own: its exported functions called with any
\* arguments, in any interleaving
ApiStep ==
  \/ CallScheduleAlarm
  \/ CallCancelAlarm
  \/ CancelAllAlarms

NextScheduler == ApiStep \/ NativeStep \/ ResumeStep \/ Restart

SpecScheduler == Init /\ [][NextScheduler]_vars

\* an armed alarm with its recurring schedule registered, whose time is
\* updated again and again, the store not waiting for the scheduler calls
InitUpdates ==
  /\ platformIOS = TRUE
  /\ alarms = <<[id |-> IdOrder[1], time |-> [hour |-> 7, minute |-> 0],
                 enabledDays |-> MonWed, isArmed |-> TRUE]>>
  /\ usedIds = {IdOrder[1]}
  /\ activeAlarmId = NoId
  /\ isRinging = FALSE
  /\ challengeStartTime = "null"
  /\ alarmUUIDs = [a \in AlarmIds |-> IF a = IdOrder[1] THEN 1 ELSE NoUUID]
  /\ minted = <<IdOrder[1]>>
  /\ live = [u \in UUIDs |->
               IF u = 1 THEN [kind |-> "recurring", hour |-> 7, minute |-> 0,
                              weekdays |-> toAlarmKitWeekdays(MonWed)]
               ELSE NoSched]
  /\ scheduledAlarmIds = {1}
  /\ calls = <<>>
  /\ restarts = 0
  /\ InitRetrigger
  /\ rhythm = NotMounted
  /\ mathChallenge = MathNotMounted
  /\ soundManager = NoSoundManager
  /\ codeChallenge = CodeNotMounted
  /\ probe = NoProbe

NativeScheduleStep ==
  \E i \in 1..Len(calls) :
    \/ NativeCancelAlarm(i)
    \/ NativeRequestAuthorization(i)
    \/ NativeScheduleRecurringAlarm(i)
    \/ NativeScheduleFixedAlarm(i)

ResumeScheduleStep ==
  \E i \in 1..Len(calls) :
    \/ AfterCancel(i)
    \/ AfterAuthorization(i)
    \/ AfterRecurring(i)
    \/ AfterFixed(i)

NextUpdates == UpdateAlarmTime \/ NativeScheduleStep \/ ResumeScheduleStep

SpecUpdates == InitUpdates /\ [][NextUpdates]_vars

\* the same with every update waiting for the scheduler call before it
NextUpdatesSeq ==
  (Quiescent /\ UpdateAlarmTime) \/ NativeScheduleStep \/ ResumeScheduleStep

SpecUpdatesSeq == InitUpdates /\ [][NextUpdatesSeq]_vars

\* the application opened by fired alarms: alarms are added, a registered
\* schedule fires and the user opens the app from it, the challenge is
\* completed; no action arrives while a scheduler call is in flight
NextLaunch ==
  \/ Quiescent /\ (AddAlarm \/ CheckAlarmLaunch \/ CompleteDismiss)
  \/ NativeScheduleStep
  \/ ResumeScheduleStep

SpecLaunch == Init /\ [][NextLaunch]_vars

\* the scheduler with re-triggers: its exported functions called one after
\* the other
NextRetrigger ==
  \/ RetriggerScheduleAlarm
  \/ RetriggerCancelAlarm
  \/ InitializeScheduler
  \/ RetriggerAfterCancelPrimary
  \/ RetriggerAfterCancelRetrigger
  \/ RetriggerAfterSave
  \/ RetriggerAfterAuthorization
  \/ RetriggerAfterRecurring
  \/ RetriggerAfterFixed
  \/ RetriggerAfterRetrigger
  \/ Restart

SpecRetrigger == Init /\ [][NextRetrigger]_vars

\* ------------------------------------------------ the pure helpers, called
\* The arguments getNextTriggerDate and toAlarmKitWeekdays are called with:
\* every enabledDays vector, "now" on each day of a week at clock times
\* before, at and after the alarm times.

AllDayVecs == [1..7 -> BOOLEAN]
ProbeClocks == {<<0, 0>>, <<6, 59>>, <<7, 0>>, <<7, 1>>, <<8, 0>>, <<23, 59>>}
ProbeTimes == {<<0, 0>>, <<7, 0>>, <<23, 59>>}
ProbeNows == {[day |-> d, hour |-> c[1], minute |-> c[2]] : d \in 0..6, c \in ProbeClocks}

InitGetNextTriggerDate ==
  /\ InitApp
  /\ probe \in {[NoProbe EXCEPT !.fn = "getNextTriggerDate", !.pc = "called", !.now = now,
                                !.hour = t[1], !.minute = t[2], !.enabledDays = d] :
                  now \in ProbeNows, t \in ProbeTimes, d \in AllDayVecs}

\* getNextTriggerDate(hour, minute, enabledDays) returns
ReturnGetNextTriggerDate ==
  /\ probe.fn = "getNextTriggerDate" /\ probe.pc = "called"
  /\ probe' = [probe EXCEPT !.pc = "returned",
                            !.date = getNextTriggerDate(probe.now, probe.hour, probe.minute,
                                                        probe.enabledDays)]
  /\ UNCHANGED <<platformIOS, storeVars, alarmUUIDs, minted, live, scheduledAlarmIds,
                 calls, restarts, retriggerVars, rhythm, mathChallenge, soundManager, codeChallenge>>

SpecGetNextTriggerDate == InitGetNextTriggerDate /\ [][ReturnGetNextTriggerDate]_vars

InitToAlarmKitWeekdays ==
  /\ InitApp
  /\ probe \in {[NoProbe EXCEPT !.fn = "toAlarmKitWeekdays", !.pc = "called",
                                !.enabledDays = d] : d \in AllDayVecs}

\* toAlarmKitWeekdays(enabledDays) returns
ReturnToAlarmKitWeekdays ==
  /\ probe.fn = "toAlarmKitWeekdays" /\ probe.pc = "called"
  /\ probe' = [probe EXCEPT !.pc = "returned",
                            !.weekdays = toAlarmKitWeekdays(probe.enabledDays)]
  /\ UNCHANGED <<platformIOS, storeVars, alarmUUIDs, minted, live, scheduledAlarmIds,
                 calls, restarts, retriggerVars, rhythm, mathChallenge, soundManager, codeChallenge>>

SpecToAlarmKitWeekdays == InitToAlarmKitWeekdays /\ [][ReturnToAlarmKitWeekdays]_vars

\* ------------------------------------------------ the beatmap generator
\* Coordinates and distances are in hundredths of the unit square, times in
\* whole milliseconds. A difficulty argument is given in halves (3 is 1.5).
\* The state keeps the target pushed last and the times of all targets; the
\* positions of earlier targets are not read again by the generator.

EDGE_PADDING == 15
COORD_MIN == EDGE_PADDING
COORD_MAX == 100 - EDGE_PADDING
MIN_DISTANCE == 20
MAX_DISTANCE == 60
MAX_PLACEMENT_ATTEMPTS == 100

TimingJitterMsWide == <<0, 0, 25, 40, 300>>

\* timingJitterMs of DIFFICULTY_MAP
TimingJitterMs == <<0, 0, 25, 40, 50>>

\* Math.round(n / m) for m > 0: the nearest integer, halves upwards
RoundDiv(n, m) == (2 * n + m) \div (2 * m)

\* Math.round of a number given in halves
RoundHalves(h) == RoundDiv(h, 2)

ClampCoordNone(value) == value

clampCoord(value) ==
  IF value > COORD_MAX THEN COORD_MAX
  ELSE IF value < COORD_MIN THEN COORD_MIN
  ELSE value

\* the square of distance(ax, ay, bx, by)
SquaredDistance(a, b) == (a.x - b.x) * (a.x - b.x) + (a.y - b.y) * (a.y - b.y)

\* dist >= MIN_DISTANCE && dist <= MAX_DISTANCE
DistanceAccepted(a, b) ==
  /\ SquaredDistance(a, b) >= MIN_DISTANCE * MIN_DISTANCE
  /\ SquaredDistance(a, b) <= MAX_DISTANCE * MAX_DISTANCE

\* the values randomInRange(COORD_MIN, COORD_MAX) is drawn from: Math.random()
\* is 0, one half, or just below 1
RandomCoords == {COORD_MIN, (COORD_MIN + COORD_MAX) \div 2, COORD_MAX - 1}

\* the angles Math.random() * 2 * Math.PI is drawn from, as <<cos, sin>>:
\* Math.random() is 0, a quarter, a half or three quarters
RandomAngles == {<<1, 0>>, <<0, 1>>, <<-1, 0>>, <<0, -1>>}

\* the values randomInRange(-timingJitterMs, timingJitterMs) is drawn from, target
\* by target, as multiples of timingJitterMs: every draw at the low end, every
\* draw at the high end, or the two in turn
JitterDraws ==
  {[k \in 1..8 |-> -1], [k \in 1..8 |-> 1], [k \in 1..8 |-> IF k % 2 = 0 THEN -1 ELSE 1]}

\* the difficulty arguments, in halves: below 1, each level, between levels, above 5
DifficultyInputs == {-4, 1, 2, 4, 5, 6, 8, 10, 14}

NoTarget == [x |-> 0, y |-> 0, how |-> "null"]

NoBeatmap == [times |-> <<>>, bpm |-> 0, duration |-> 0, difficulty |-> 0]

\* Math.max(1, Math.min(5, Math.round(difficulty)))
ClampedDifficulty(difficulty) ==
  LET rounded == RoundHalves(difficulty)
  IN  IF rounded < 1 THEN 1 ELSE IF rounded > 5 THEN 5 ELSE rounded

JitteredFromFirst(i, level) == TimingJitterMs[level] > 0

\* i > 0 && config.timingJitterMs > 0
Jittered(i, level) == i > 0 /\ TimingJitterMs[level] > 0

\* the time of target i of a level, with the jitter drawn for it
TargetTime(i, level, draws) ==
  LET time == RoundDiv(i * 60000, DIFFICULTY_MAP[level].bpm)
      jitter == draws[i + 1] * TimingJitterMs[level]
  IN  IF Jittered(i, level)
      THEN (IF time + jitter < 0 THEN 0 ELSE time + jitter)
      ELSE time

RECURSIVE InsertByTime(_, _)
InsertByTime(t, sorted) ==
  IF sorted = <<>> THEN <<t>>
  ELSE IF t < Head(sorted) THEN <<t>> \o sorted
  ELSE <<Head(sorted)>> \o InsertByTime(t, Tail(sorted))

\* targets.sort((a, b) => a.time - b.time), on the times
RECURSIVE SortByTime(_)
SortByTime(times) ==
  IF times = <<>> THEN <<>>
  ELSE InsertByTime(times[Len(times)], SortByTime(SubSeq(times, 1, Len(times) - 1)))

DurationRoundedDown(times, bpm) ==
  LET lastTargetTime == IF Len(times) > 0 THEN times[Len(times)] ELSE 0
  IN  (lastTargetTime * bpm + 60000) \div bpm

\* Math.round(lastTargetTime + beatIntervalMs)
Duration(times, bpm) ==
  LET lastTargetTime == IF Len(times) > 0 THEN times[Len(times)] ELSE 0
  IN  RoundDiv(lastTargetTime * bpm + 60000, bpm)

AttemptsLeftAlways(attempt) == attempt >= 0

\* attempt < MAX_PLACEMENT_ATTEMPTS
AttemptsLeft(attempt) == attempt < MAX_PLACEMENT_ATTEMPTS

GeneratorCall(difficulty, draws) ==
  [fn |-> "generateBeatmap", pc |-> "called", difficulty |-> difficulty,
   jitters |-> draws, clampedDifficulty |-> 0, i |-> 0, time |-> 0, times |-> <<>>,
   previousTarget |-> NoTarget, attempt |-> 0, beatmap |-> NoBeatmap]

InitGenerateBeatmap ==
  /\ InitApp
  /\ platformIOS
  /\ probe \in {GeneratorCall(d, draws) : d \in DifficultyInputs, draws \in JitterDraws}

ProbeUnchanged ==
  UNCHANGED <<platformIOS, storeVars, alarmUUIDs, minted, live, scheduledAlarmIds,
              calls, restarts, retriggerVars, rhythm, mathChallenge, soundManager, codeChallenge>>

\* target pushed, previousTarget = target, i++
Pushed(target) ==
  [probe EXCEPT !.pc = "loop", !.times = Append(@, probe.time),
                !.previousTarget = target, !.i = @ + 1, !.attempt = 0]

\* generateBeatmap: the difficulty is clamped, the configuration looked up
GenerateBeatmapBegin ==
  /\ probe.fn = "generateBeatmap" /\ probe.pc = "called"
  /\ probe' = [probe EXCEPT !.pc = "loop",
                            !.clampedDifficulty = ClampedDifficulty(probe.difficulty)]
  /\ ProbeUnchanged

\* the loop body up to the call of generateTarget: the target's time
GenerateBeatmapTime ==
  /\ probe.fn = "generateBeatmap" /\ probe.pc = "loop"
  /\ probe.i < DIFFICULTY_MAP[probe.clampedDifficulty].targetCount
  /\ probe' = [probe EXCEPT !.pc = "generateTarget",
                            !.time = TargetTime(probe.i, probe.clampedDifficulty,
                                                probe.jitters)]
  /\ ProbeUnchanged

\* generateTarget(null, time): the first target
GenerateFirstTarget ==
  /\ probe.fn = "generateBeatmap" /\ probe.pc = "generateTarget"
  /\ probe.previousTarget = NoTarget
  /\ \E x \in RandomCoords, y \in RandomCoords :
       probe' = Pushed([x |-> x, y |-> y, how |-> "first"])
  /\ ProbeUnchanged

\* generateTarget(previous, time): one attempt of the loop
GenerateTargetAttempt ==
  /\ probe.fn = "generateBeatmap" /\ probe.pc = "generateTarget"
  /\ probe.previousTarget # NoTarget
  /\ AttemptsLeft(probe.attempt)
  /\ \E x \in RandomCoords, y \in RandomCoords :
       LET drawn == [x |-> x, y |-> y, how |-> "attempt"]
       IN  IF DistanceAccepted(probe.previousTarget, drawn)
           THEN probe' = Pushed(drawn)
           ELSE probe' = [probe EXCEPT !.attempt = @ + 1]
  /\ ProbeUnchanged

\* generateTarget(previous, time): the fallback after the loop
GenerateTargetFallback ==
  /\ probe.fn = "generateBeatmap" /\ probe.pc = "generateTarget"
  /\ probe.previousTarget # NoTarget
  /\ ~AttemptsLeft(probe.attempt)
  /\ \E angle \in RandomAngles :
       LET targetDist == (MIN_DISTANCE + MAX_DISTANCE) \div 2
           x == clampCoord(probe.previousTarget.x + angle[1] * targetDist)
           y == clampCoord(probe.previousTarget.y + angle[2] * targetDist)
       IN  probe' = Pushed([x |-> x, y |-> y, how |-> "fallback"])
  /\ ProbeUnchanged

\* generateBeatmap after the loop: sort, duration, return
GenerateBeatmapReturn ==
  /\ probe.fn = "generateBeatmap" /\ probe.pc = "loop"
  /\ ~(probe.i < DIFFICULTY_MAP[probe.clampedDifficulty].targetCount)
  /\ LET config == DIFFICULTY_MAP[probe.clampedDifficulty]
         targets == SortByTime(probe.times)
     IN  probe' = [probe EXCEPT !.pc = "returned",
                                !.beatmap = [times |-> targets, bpm |-> config.bpm,
                                             duration |-> Duration(targets, config.bpm),
                                             difficulty |-> probe.clampedDifficulty]]
  /\ ProbeUnchanged

NextGenerateBeatmap ==
  \/ GenerateBeatmapBegin
  \/ GenerateBeatmapTime
  \/ GenerateFirstTarget
  \/ GenerateTargetAttempt
  \/ GenerateTargetFallback
  \/ GenerateBeatmapReturn

SpecGenerateBeatmap == InitGenerateBeatmap /\ [][NextGenerateBeatmap]_vars

\* Math.abs
Abs(x) == IF x < 0 THEN -x ELSE x

\* ------------------------------------------------ the math generator
\* A problem's question is kept as its form, operator and operands a, b, c
\* (the template string's parts); display is the question followed by " = ?".

\* randomInt(min, max) with Math.random() 0, one half, or just below 1
RandomInts(min, max) == {min, min + (max - min + 1) \div 2, max}

Problem(form, op, a, b, c, answer, difficulty) ==
  [form |-> form, op |-> op, a |-> a, b |-> b, c |-> c,
   answer |-> answer, difficulty |-> difficulty]

additionTwoDigit ==
  {Problem("additionTwoDigit", "+", a, b, 0, a + b, 1) :
     a \in RandomInts(10, 99), b \in RandomInts(10, 99)}

additionThreePlusTwoDigit ==
  {Problem("additionThreePlusTwoDigit", "+", a, b, 0, a + b, 2) :
     a \in RandomInts(100, 999), b \in RandomInts(10, 99)}

multiplicationTwoByOne ==
  {Problem("multiplicationTwoByOne", "*", a, b, 0, a * b, 2) :
     a \in RandomInts(10, 99), b \in RandomInts(2, 9)}

multiplicationTwoByTwo ==
  {Problem("multiplicationTwoByTwo", "*", a, b, 0, a * b, 3) :
     a \in RandomInts(10, 99), b \in RandomInts(10, 99)}

subtractionThreeMinusTwoSwapped ==
  {Problem("subtractionThreeMinusTwo", "-", a, b, 0, b - a, 3) :
     a \in RandomInts(100, 999), b \in RandomInts(10, 99)}

subtractionThreeMinusTwo ==
  {Problem("subtractionThreeMinusTwo", "-", a, b, 0, a - b, 3) :
     a \in RandomInts(100, 999), b \in RandomInts(10, 99)}

multiplicationThreeByTwo ==
  {Problem("multiplicationThreeByTwo", "*", a, b, 0, a * b, 4) :
     a \in RandomInts(100, 999), b \in RandomInts(10, 99)}

\* ax + b = c with answer x
algebraSimple ==
  {Problem("algebraSimple", "ax+b=c", a, b, a * x + b, x, 4) :
     a \in RandomInts(2, 5), x \in RandomInts(1, 30), b \in RandomInts(1, 50)}

multiplicationThreeByTwoHard ==
  {Problem("multiplicationThreeByTwoHard", "*", a, b, 0, a * b, 5) :
     a \in RandomInts(100, 999), b \in RandomInts(10, 99)}

algebraHard ==
  {Problem("algebraHard", "ax+b=c", a, b, a * x + b, x, 5) :
     a \in RandomInts(6, 15), x \in RandomInts(1, 25), b \in RandomInts(1, 99)}

\* dividend / divisor with answer quotient: a is the dividend, b the divisor
divisionClean ==
  {Problem("divisionClean", "/", divisor * quotient, divisor, 0, quotient, 5) :
     divisor \in RandomInts(12, 99), quotient \in RandomInts(10, 99)}

\* Math.max(1, Math.min(5, Math.round(difficulty))) of an integer
MathLevel(difficulty) ==
  IF difficulty < 1 THEN 1 ELSE IF difficulty > 5 THEN 5 ELSE difficulty

\* the problems generateMathProblem(difficulty) can return
generateMathProblem(difficulty) ==
  CASE MathLevel(difficulty) = 1 -> additionTwoDigit
    [] MathLevel(difficulty) = 2 -> additionThreePlusTwoDigit \cup multiplicationTwoByOne
    [] MathLevel(difficulty) = 3 -> multiplicationTwoByTwo \cup subtractionThreeMinusTwo
    [] MathLevel(difficulty) = 4 -> multiplicationThreeByTwo \cup algebraSimple
    [] MathLevel(difficulty) = 5 ->
         multiplicationThreeByTwoHard \cup algebraHard \cup divisionClean
    [] OTHER -> additionTwoDigit

checkAnswerInclusive(problem, userAnswer) ==
  Abs(problem.answer * 100 - userAnswer) <= 1

\* checkAnswer(problem, userAnswer), userAnswer in hundredths: 0.01 is 1
checkAnswer(problem, userAnswer) ==
  Abs(problem.answer * 100 - userAnswer) < 1

\* the integer difficulty arguments: negative, zero, each level, above 5
MathDifficultyInputs == -1..7

\* how far from the answer, in hundredths, the userAnswer arguments are
AnswerOffsets == {-100, -2, -1, 0, 1, 2, 100}

MathCall(fn) ==
  [fn |-> fn, pc |-> "called", difficulty |-> 0, problem |-> NoProblem,
   userAnswer |-> 0, result |-> FALSE]

InitGenerateMathProblem ==
  /\ InitApp
  /\ probe \in {[MathCall("generateMathProblem") EXCEPT !.difficulty = d] :
                  d \in MathDifficultyInputs}

\* generateMathProblem(difficulty) returns
ReturnGenerateMathProblem ==
  /\ probe.fn = "generateMathProblem" /\ probe.pc = "called"
  /\ \E problem \in generateMathProblem(probe.difficulty) :
       probe' = [probe EXCEPT !.pc = "returned", !.problem = problem]
  /\ ProbeUnchanged

SpecGenerateMathProblem == InitGenerateMathProblem /\ [][ReturnGenerateMathProblem]_vars

InitCheckAnswer ==
  /\ InitApp
  /\ probe \in {[MathCall("checkAnswer") EXCEPT !.problem = p,
                                               !.userAnswer = p.answer * 100 + o] :
                  p \in UNION {generateMathProblem(d) : d \in 1..5}, o \in AnswerOffsets}

\* checkAnswer(problem, userAnswer) returns
ReturnCheckAnswer ==
  /\ probe.fn = "checkAnswer" /\ probe.pc = "called"
  /\ probe' = [probe EXCEPT !.pc = "returned",
                            !.result = checkAnswer(probe.problem, probe.userAnswer)]
  /\ ProbeUnchanged

SpecCheckAnswer == InitCheckAnswer /\ [][ReturnCheckAnswer]_vars

\* ------------------------------------------- the math challenge: steps
\* userInput is the text of the number pad's input, a sequence of digits.
\* generated counts the problems generateMathProblem made that became
\* currentProblem; submitted is the outcome of the last submission.

MATH_DIFFICULTY == 3

\* the decimal digits of a natural number
RECURSIVE Digits(_)
Digits(n) == IF n < 10 THEN <<n>> ELSE Append(Digits(n \div 10), n % 10)

\* parseInt(userInput, 10) of a non-empty sequence of digits
RECURSIVE parseInt(_)
parseInt(text) ==
  IF Len(text) = 1 THEN text[1]
  ELSE 10 * parseInt(SubSeq(text, 1, Len(text) - 1)) + text[Len(text)]

\* the texts typed for a problem: nothing, its answer, its answer with a
\* leading zero, the next number
TypedFor(problem) ==
  {<<>>, Digits(problem.answer), <<0>> \o Digits(problem.answer),
   Digits(problem.answer + 1)}

MathUnchanged ==
  UNCHANGED <<platformIOS, storeVars, alarmUUIDs, minted, live, scheduledAlarmIds,
              calls, restarts, retriggerVars, probe, rhythm, soundManager, codeChallenge>>

\* the component mounts: useState(() => generateMathProblem(DIFFICULTY))
MathMount ==
  /\ ~mathChallenge.mounted
  /\ \E problem \in generateMathProblem(MATH_DIFFICULTY) :
       mathChallenge' = [MathNotMounted EXCEPT !.mounted = TRUE,
                                               !.currentProblem = problem,
                                               !.generated = 1]
  /\ MathUnchanged

\* onChangeText of the input
MathChangeText ==
  /\ mathChallenge.mounted /\ ~mathChallenge.completed
  /\ \E text \in TypedFor(mathChallenge.currentProblem) :
       mathChallenge' = [mathChallenge EXCEPT !.userInput = text]
  /\ MathUnchanged

\* onSubmitEditing of the input: handleSubmit
MathHandleSubmit ==
  /\ mathChallenge.mounted /\ ~mathChallenge.completed
  /\ Len(mathChallenge.userInput) # 0
  /\ LET parsed == parseInt(mathChallenge.userInput)
     IN  IF checkAnswer(mathChallenge.currentProblem, parsed * 100)
         THEN mathChallenge' = [mathChallenge EXCEPT !.completed = TRUE,
                                                     !.submitted = "right"]
         ELSE mathChallenge' = [mathChallenge EXCEPT !.userInput = <<>>,
                                                     !.submitted = "wrong"]
  /\ MathUnchanged

NextMathChallenge ==
  \/ MathMount
  \/ MathChangeText
  \/ MathHandleSubmit

SpecMathChallenge == Init /\ [][NextMathChallenge]_vars

\* ------------------------------------------------ the code problem bank
\* Each entry of PROBLEM_BANK, in order: its id, the number of entries of its
\* options array, its correctIndex.

BankEntries ==
  <<
    <<"arr-01", 4, 1>>, <<"arr-02", 4, 1>>, <<"arr-03", 4, 1>>,
    <<"arr-04", 4, 2>>, <<"arr-05", 4, 1>>, <<"str-01", 4, 1>>,
    <<"str-02", 4, 1>>, <<"str-03", 4, 1>>, <<"str-04", 4, 2>>,
    <<"str-05", 4, 1>>, <<"str-06", 4, 1>>, <<"sort-01", 4, 1>>,
    <<"sort-02", 4, 1>>, <<"sort-03", 4, 3>>, <<"sort-04", 4, 2>>,
    <<"loop-01", 4, 1>>, <<"loop-02", 4, 0>>, <<"loop-03", 4, 1>>,
    <<"loop-04", 4, 2>>, <<"loop-05", 4, 2>>, <<"loop-06", 4, 1>>,
    <<"dict-01", 4, 1>>, <<"dict-02", 4, 2>>, <<"dict-03", 4, 2>>,
    <<"dict-04", 4, 1>>, <<"type-01", 4, 1>>, <<"type-02", 4, 0>>,
    <<"type-03", 4, 2>>, <<"type-04", 4, 2>>, <<"math-01", 4, 1>>,
    <<"math-02", 4, 3>>, <<"math-03", 4, 2>>, <<"scope-01", 4, 2>>,
    <<"scope-02", 4, 1>>, <<"scope-03", 4, 1>>
  >>

ProblemBankRepeated ==
  [k \in DOMAIN BankEntries |->
     [id |-> BankEntries[1][1], options |-> BankEntries[k][2] + 1,
      correctIndex |-> BankEntries[k][3] + 4]]

PROBLEM_BANK ==
  [k \in DOMAIN BankEntries |->
     [id |-> BankEntries[k][1], options |-> BankEntries[k][2],
      correctIndex |-> BankEntries[k][3]]]

\* pool[index] of an index outside the array
UndefinedProblem == [id |-> "undefined", options |-> 0, correctIndex |-> 0]

\* PROBLEM_BANK.filter((p) => !excluded.has(p.id))
RECURSIVE Filtered(_, _)
Filtered(bank, excluded) ==
  IF bank = <<>> THEN <<>>
  ELSE IF Head(bank).id \in excluded THEN Filtered(Tail(bank), excluded)
  ELSE <<Head(bank)>> \o Filtered(Tail(bank), excluded)

PoolWithoutFallback(excludeIds) ==
  IF excludeIds.given /\ Len(excludeIds.ids) > 0
  THEN Filtered(PROBLEM_BANK, {excludeIds.ids[k] : k \in DOMAIN excludeIds.ids})
  ELSE PROBLEM_BANK

\* getRandomProblem: the pool the problem is drawn from
Pool(excludeIds) ==
  IF excludeIds.given /\ Len(excludeIds.ids) > 0
  THEN LET filtered ==
             Filtered(PROBLEM_BANK, {excludeIds.ids[k] : k \in DOMAIN excludeIds.ids})
       IN  IF Len(filtered) > 0 THEN filtered ELSE PROBLEM_BANK
  ELSE PROBLEM_BANK

\* Math.floor(Math.random() * length) with Math.random() 0, one half, or just below 1
RandomIndices(length) ==
  {0, length \div 2, IF length > 0 THEN length - 1 ELSE 0}

\* pool[index]
At(pool, index) == IF index < Len(pool) THEN pool[index + 1] ELSE UndefinedProblem

\* the ids of the bank, in order
AllIds == [k \in DOMAIN PROBLEM_BANK |-> PROBLEM_BANK[k].id]

\* the excludeIds arguments: none, the empty array, one id, the first ids, all
\* ids but one, all ids, an id of no problem, all ids and an id of no problem
ExcludeIdsInputs ==
  {[given |-> FALSE, ids |-> <<>>]}
    \cup {[given |-> TRUE, ids |-> ids] :
            ids \in {<<AllIds[k]>> : k \in DOMAIN AllIds}
                      \cup {SubSeq(AllIds, 1, k) : k \in 0..Len(AllIds)}
                      \cup {SubSeq(AllIds, 1, k - 1) \o SubSeq(AllIds, k + 1, Len(AllIds)) :
                              k \in DOMAIN AllIds}
                      \cup {<<"none-01">>, Append(AllIds, "none-01")}}

InitGetRandomProblem ==
  /\ InitApp
  /\ probe \in {[fn |-> "getRandomProblem", pc |-> "called", excludeIds |-> e,
                 problem |-> UndefinedProblem] : e \in ExcludeIdsInputs}

\* getRandomProblem(excludeIds) returns
ReturnGetRandomProblem ==
  /\ probe.fn = "getRandomProblem" /\ probe.pc = "called"
  /\ LET pool == Pool(probe.excludeIds)
     IN  \E index \in RandomIndices(Len(pool)) :
           probe' = [probe EXCEPT !.pc = "returned", !.problem = At(pool, index)]
  /\ ProbeUnchanged

SpecGetRandomProblem == InitGetRandomProblem /\ [][ReturnGetRandomProblem]_vars

\* ------------------------------------------- the rhythm challenge: steps
\* rhythm.beatmap numbers the beatmaps generateBeatmap has returned to the
\* component; approach, missAnimation, advanceTimer and completeTimer say
\* which animation is running and which timeout is pending. streak counts the
\* hits since the last call of handleMiss, and tap is the last tap handled.
\* endedAt is the time since animationStartRef at which the approach animation
\* of the current target stopped (0 while it runs), dropped is the last tap
\* handleTap returned early from, and ranOut says that advanceTarget's timeout
\* has found no next target.

\* the elapsed times a tap is handled at: before, at and after the beat, on
\* both sides of each window's edge
TapElapsed ==
  {0} \cup {BeatInterval - d : d \in {0, 1, 49, 50, 51, 119, 120, 121}}
      \cup {BeatInterval + d : d \in {49, 50, 119, 120}}

ClassifyInclusive(delta) ==
  IF delta <= PERFECT_WINDOW_MS THEN "perfect"
  ELSE IF delta <= GOOD_WINDOW_MS THEN "good"
  ELSE "miss"

\* handleTap: the HitResult of a tap delta ms away from the beat
Classify(delta) ==
  IF delta < PERFECT_WINDOW_MS THEN "perfect"
  ELSE IF delta < GOOD_WINDOW_MS THEN "good"
  ELSE "miss"

startApproachAnimation(r) ==
  [r EXCEPT !.hitFlash = "null", !.isMissAnimating = FALSE, !.approach = TRUE,
            !.endedAt = 0]

\* the effect on [currentIndex, beatmap, containerSize]
KickOff(r) ==
  IF r.containerSize = 0 \/ r.currentIndex >= DIFFICULTY_MAP[DIFFICULTY].targetCount
     \/ r.completedRef
  THEN r
  ELSE startApproachAnimation(r)

\* handleMiss, up to the start of the drop-and-fade animation
handleMiss(r) ==
  [r EXCEPT !.approach = FALSE, !.isMissAnimating = TRUE, !.missAnimation = TRUE,
            !.streak = 0]

\* advanceTarget, up to setTimeout
advanceTarget(r) == [r EXCEPT !.isAdvancing = TRUE, !.advanceTimer = TRUE]

TapAcceptedAfterCompletion == ~rhythm.isMissAnimating /\ ~rhythm.isAdvancing

TapAcceptedWhileMissAnimating == ~rhythm.completedRef /\ ~rhythm.isAdvancing

\* handleTap goes past its three early returns
TapAccepted == ~rhythm.completedRef /\ ~rhythm.isMissAnimating /\ ~rhythm.isAdvancing

\* a miss makes the component generate one more beatmap
MayMiss == rhythm.beatmap < MaxBeatmaps

RhythmUnchanged ==
  UNCHANGED <<platformIOS, storeVars, alarmUUIDs, minted, live, scheduledAlarmIds,
              calls, restarts, retriggerVars, probe, mathChallenge, soundManager, codeChallenge>>

\* the component mounts: the useState and useRef initial values
RhythmMount ==
  /\ ~rhythm.mounted
  /\ rhythm' = [NotMounted EXCEPT !.mounted = TRUE, !.beatmap = 1]
  /\ RhythmUnchanged

\* onLayout of the target area
HandleLayout ==
  /\ rhythm.mounted /\ rhythm.containerSize = 0
  /\ rhythm' = KickOff([rhythm EXCEPT !.containerSize = 1])
  /\ RhythmUnchanged

\* onPress of the target
HandleTap ==
  /\ rhythm.mounted /\ rhythm.containerSize > 0
  /\ rhythm.currentIndex < DIFFICULTY_MAP[DIFFICULTY].targetCount
  /\ TapAccepted
  /\ \E elapsed \in TapElapsed :
       LET result == Classify(Abs(elapsed - BeatInterval))
           stopped == [rhythm EXCEPT !.approach = FALSE, !.endedAt = elapsed,
                                     !.tap = [elapsed |-> elapsed, result |-> result]]
           newConsecutive == rhythm.consecutiveHits + 1
           hit == [stopped EXCEPT !.hitFlash = result,
                                  !.consecutiveHits = newConsecutive,
                                  !.streak = IF @ < REQUIRED_CONSECUTIVE THEN @ + 1 ELSE @]
       IN  IF result = "miss"
           THEN /\ MayMiss
                /\ rhythm' = handleMiss(stopped)
           ELSE IF newConsecutive >= REQUIRED_CONSECUTIVE
           THEN rhythm' = [hit EXCEPT !.completedRef = TRUE, !.completeTimer = TRUE]
           ELSE rhythm' = advanceTarget(hit)
  /\ RhythmUnchanged

\* onPress of the target while completedRef or isMissAnimating is set: handleTap
\* returns early. The target is pressed after its approach animation stopped,
\* and animationStartRef is still the start of that animation.
HandleTapIgnored ==
  /\ rhythm.mounted /\ rhythm.containerSize > 0
  /\ rhythm.currentIndex < DIFFICULTY_MAP[DIFFICULTY].targetCount
  /\ ~rhythm.isAdvancing
  /\ ~TapAccepted
  /\ \E elapsed \in TapElapsed :
       /\ elapsed > rhythm.endedAt
       /\ rhythm' = [rhythm EXCEPT !.dropped = [elapsed |-> elapsed,
                                                result |-> "ignored"]]
  /\ RhythmUnchanged

\* the approach animation ends without a tap
ApproachFinished ==
  /\ rhythm.approach
  /\ MayMiss
  /\ rhythm' = IF ~rhythm.completedRef
               THEN handleMiss([rhythm EXCEPT !.endedAt = BeatInterval])
               ELSE [rhythm EXCEPT !.approach = FALSE, !.endedAt = BeatInterval]
  /\ RhythmUnchanged

\* the callback of the miss animation
MissAnimationFinished ==
  /\ rhythm.missAnimation
  /\ rhythm' = KickOff([rhythm EXCEPT !.missAnimation = FALSE,
                                      !.consecutiveHits = 0,
                                      !.beatmap = @ + 1,
                                      !.currentIndex = 0])
  /\ RhythmUnchanged

\* the timeout of advanceTarget
AdvanceTimeout ==
  /\ rhythm.advanceTimer
  /\ LET next == rhythm.currentIndex + 1
         ranOut == next >= DIFFICULTY_MAP[DIFFICULTY].targetCount
     IN  rhythm' = KickOff([rhythm EXCEPT !.advanceTimer = FALSE,
                                          !.isAdvancing = FALSE,
                                          !.ranOut = @ \/ ranOut,
                                          !.currentIndex = IF ranOut THEN 0 ELSE next,
                                          !.beatmap = IF ranOut THEN @ + 1 ELSE @])
  /\ RhythmUnchanged

\* the timeout that calls onComplete
CompleteTimeout ==
  /\ rhythm.completeTimer
  /\ rhythm' = [rhythm EXCEPT !.completeTimer = FALSE, !.completions = @ + 1]
  /\ RhythmUnchanged

NextRhythm ==
  \/ RhythmMount
  \/ HandleLayout
  \/ HandleTap
  \/ HandleTapIgnored
  \/ ApproachFinished
  \/ MissAnimationFinished
  \/ AdvanceTimeout
  \/ CompleteTimeout

SpecRhythm == Init /\ [][NextRhythm]_vars

\* ------------------------------------------------- the code challenge
\* Each handler is one step, taken together with the render of its state
\* updates.

CodeUnchanged ==
  UNCHANGED <<platformIOS, storeVars, alarmUUIDs, minted, live, scheduledAlarmIds,
              calls, restarts, retriggerVars, probe, rhythm, mathChallenge, soundManager>>

\* usedIdsRef.current as the argument of getRandomProblem: the ids pushed so
\* far (getRandomProblem reads the array's length and the set of its entries)
UsedIdsArray(used) ==
  [given |-> TRUE, ids |-> SelectSeq(AllIds, LAMBDA id : id \in used)]

\* Math.floor(Math.random() * length) for the problems that follow the first:
\* Math.random() 0 or just below 1
ProblemIndices(length) == {0, IF length > 0 THEN length - 1 ELSE 0}

\* the component mounts: useState(() => getRandomProblem())
CodeMount ==
  /\ ~codeChallenge.mounted
  /\ LET pool == Pool([given |-> FALSE, ids |-> <<>>])
     IN  \E index \in RandomIndices(Len(pool)) :
           codeChallenge' = [CodeNotMounted EXCEPT !.mounted = TRUE,
                                                   !.problem = At(pool, index)]
  /\ CodeUnchanged

PressAcceptedWhileFlashing == TRUE

\* handleOptionPress goes past `if (isFlashing) return`
PressAccepted == ~codeChallenge.isFlashing

\* handleOptionPress(selectedIndex)
HandleOptionPress ==
  /\ codeChallenge.mounted
  /\ \E selectedIndex \in 0..3 :
       IF ~PressAccepted
       THEN UNCHANGED codeChallenge
       ELSE IF selectedIndex = codeChallenge.problem.correctIndex
       THEN /\ codeChallenge.completions < MaxCompletions
            /\ codeChallenge' = [codeChallenge EXCEPT !.completions = @ + 1]
       ELSE LET used == codeChallenge.usedIds \cup {codeChallenge.problem.id}
                pool == Pool(UsedIdsArray(used))
            IN  \E index \in ProblemIndices(Len(pool)) :
                  codeChallenge' = [codeChallenge EXCEPT !.isFlashing = TRUE,
                                                         !.flash = TRUE,
                                                         !.usedIds = used,
                                                         !.problem = At(pool, index)]
  /\ CodeUnchanged

\* the callback of the flash animation
FlashFinished ==
  /\ codeChallenge.flash
  /\ codeChallenge' = [codeChallenge EXCEPT !.flash = FALSE, !.isFlashing = FALSE]
  /\ CodeUnchanged

NextCodeChallenge == CodeMount \/ HandleOptionPress \/ FlashFinished

SpecCodeChallenge == Init /\ [][NextCodeChallenge]_vars

\* ------------------------------------------------------ the sound manager
\* soundManager.sounds[k] is the state of the k-th Audio.Sound createAsync has
\* returned: "playing" (loaded and looping), "stopped" (loaded) or "unloaded".
\* A call record holds the await its call is suspended at (pc) and the sound
\* its native call in flight was issued on (target).

SoundUnchanged ==
  UNCHANGED <<platformIOS, storeVars, alarmUUIDs, minted, live, scheduledAlarmIds,
              calls, restarts, retriggerVars, probe, rhythm, mathChallenge, codeChallenge>>

\* stop() up to its first await, for a call of stop() or for the
\* `await this.stop()` of playAlarm: with this.sound null, stop() returns and
\* playAlarm goes on to Audio.Sound.createAsync
StopStart(kind) ==
  IF soundManager.sound # 0
  THEN [kind |-> kind, pc |-> "stopAsync", target |-> soundManager.sound]
  ELSE IF kind = "playAlarm"
  THEN [kind |-> kind, pc |-> "createAsync", target |-> 0]
  ELSE [kind |-> kind, pc |-> "done", target |-> 0]

CanCallSound == Len(soundManager.calls) < MaxSoundCalls

\* soundManager.playAlarm(soundKey) is called
SoundPlayAlarm ==
  /\ CanCallSound
  /\ soundManager' = [soundManager EXCEPT !.calls = Append(@, StopStart("playAlarm")),
                                          !.quiet = FALSE]
  /\ SoundUnchanged

\* soundManager.stop() is called
SoundStop ==
  /\ CanCallSound
  /\ LET c == StopStart("stop")
     IN  soundManager' = [soundManager EXCEPT !.calls = Append(@, c),
                                              !.quiet = @ \/ c.pc = "done"]
  /\ SoundUnchanged

\* the end of stop(): this.sound = null; a stop() call has completed, a
\* playAlarm call goes on to Audio.Sound.createAsync
StopEnd(m, i) ==
  LET c == m.calls[i]
  IN  IF c.kind = "stop"
      THEN [m EXCEPT !.sound = 0, !.quiet = TRUE,
                     !.calls[i] = [c EXCEPT !.pc = "done", !.target = 0]]
      ELSE [m EXCEPT !.sound = 0,
                     !.calls[i] = [c EXCEPT !.pc = "createAsync", !.target = 0]]

\* `await this.sound.stopAsync()` settles: it rejects on a sound that is not
\* loaded, and may reject otherwise; when it resolves, unloadAsync is called
\* on what this.sound is by then, which throws if it is null
SoundAfterStopAsync(i) ==
  LET c == soundManager.calls[i]
  IN  /\ c.pc = "stopAsync"
      /\ \E ok \in IF soundManager.sounds[c.target] = "unloaded" THEN {FALSE} ELSE BOOLEAN :
           LET halted == [soundManager EXCEPT !.sounds[c.target] = IF ok THEN "stopped" ELSE @]
           IN  soundManager' =
                 IF ok /\ soundManager.sound # 0
                 THEN [halted EXCEPT !.calls[i] = [c EXCEPT !.pc = "unloadAsync",
                                                           !.target = soundManager.sound]]
                 ELSE StopEnd(halted, i)
      /\ SoundUnchanged

\* `await this.sound.unloadAsync()` settles
SoundAfterUnloadAsync(i) ==
  LET c == soundManager.calls[i]
  IN  /\ c.pc = "unloadAsync"
      /\ \E ok \in BOOLEAN :
           soundManager' =
             StopEnd([soundManager EXCEPT !.sounds[c.target] = IF ok THEN "unloaded" ELSE @], i)
      /\ SoundUnchanged

\* `await Audio.Sound.createAsync(asset, { isLooping, shouldPlay })` settles:
\* this.sound = sound, or null when it rejects
SoundAfterCreateAsync(i) ==
  LET c == soundManager.calls[i]
  IN  /\ c.pc = "createAsync"
      /\ \E ok \in BOOLEAN :
           soundManager' =
             IF ok
             THEN [soundManager EXCEPT !.sounds = Append(@, "playing"),
                                       !.sound = Len(soundManager.sounds) + 1,
                                       !.calls[i] = [c EXCEPT !.pc = "done"]]
             ELSE [soundManager EXCEPT !.sound = 0,
                                       !.calls[i] = [c EXCEPT !.pc = "done"]]
      /\ SoundUnchanged

SoundResumeStep ==
  \E i \in 1..Len(soundManager.calls) :
    \/ SoundAfterStopAsync(i)
    \/ SoundAfterUnloadAsync(i)
    \/ SoundAfterCreateAsync(i)

\* playAlarm and stop called at any time
NextSoundManager == SoundPlayAlarm \/ SoundStop \/ SoundResumeStep

SpecSoundManager == Init /\ [][NextSoundManager]_vars

\* ============================================================ properties

\* the schedules registered with the OS under a UUID minted for alarm a
LiveFor(a) == {u \in UUIDs : live[u] # NoSched /\ u <= Len(minted) /\ minted[u] = a}

Events(c) == {c.log[k] : k \in 1..Len(c.log)}

\* C1: for every alarm id, in every reachable state, at most one external
\* schedule is live for that alarm id (stated for a process that was never
\* restarted).
C1_AtMostOneLiveSchedule ==
  restarts = 0 => \A a \in AlarmIds : Cardinality(LiveFor(a)) <= 1

\* C2: once every in-flight scheduler call has completed, an alarm whose
\* isArmed is false has no live external schedule (stated for a process that
\* was never restarted).
C2_DisarmedHasNoSchedule ==
  (Quiescent /\ restarts = 0) =>
    \A k \in 1..Len(alarms) : ~alarms[k].isArmed => LiveFor(alarms[k].id) = {}

\* C3: a scheduleAlarm call that directly follows a completed scheduleAlarm
\* call of the same alarm, and whose own schedule was accepted, leaves exactly
\* one live external schedule for that alarm.
C3_TwiceLeavesOneSchedule ==
  \A i \in 1..Len(calls) :
    LET c == calls[i]
    IN (c.kind = "schedule" /\ c.pc = "done" /\ c.succ /\ c.accepted)
         => Cardinality(LiveFor(c.id)) = 1

\* C4: within one scheduleAlarm call the external cancel of the UUID on
\* record is issued first, and requestAuthorization, scheduleRecurringAlarm
\* and scheduleFixedAlarm are called only after that cancel has returned.
C4_CancelReturnsBeforeAuthorize ==
  \A i \in 1..Len(calls) :
    LET c == calls[i]
    IN (c.kind = "schedule" /\ c.onRecord # NoUUID) =>
         /\ c.cancelled = <<c.onRecord>>
         /\ c.log[1] = "cancel!"
         /\ \A k \in 1..Len(c.log) :
              c.log[k] \in {"auth!", "recur!", "fixed!"}
                => \E j \in 1..(k - 1) : c.log[j] = "cancel?"

\* a scheduleAlarm call that cancelled the UUID on record and went on to
\* schedule
C4_Witness ==
  \E i \in 1..Len(calls) :
    /\ calls[i].kind = "schedule"
    /\ calls[i].onRecord # NoUUID
    /\ "recur!" \in Events(calls[i])

\* C5: once all in-flight scheduler calls have completed, no external
\* schedule is live for a deleted alarm id (stated for a process that was
\* never restarted).
C5_DeletedHasNoSchedule ==
  (Quiescent /\ restarts = 0) =>
    \A a \in usedIds \ StoreIds(alarms) : LiveFor(a) = {}

\* C6: when requestAuthorization answers anything but 'authorized',
\* scheduleAlarm calls neither scheduleRecurringAlarm nor scheduleFixedAlarm,
\* mints no UUID and returns normally.
C6_NotAuthorizedSchedulesNothing ==
  \A i \in 1..Len(calls) :
    LET c == calls[i]
    IN (c.kind = "schedule" /\ c.auth \notin {"none", "authorized"}) =>
         /\ c.pc = "done"
         /\ c.recurArgs = <<>> /\ c.fixedArgs = <<>>
         /\ Events(c) \cap {"recur!", "fixed!"} = {}
         /\ ~c.mintedNew

\* a scheduleAlarm call that was answered 'notDetermined'
C6_Witness ==
  \E i \in 1..Len(calls) :
    /\ calls[i].kind = "schedule"
    /\ calls[i].pc = "done"
    /\ calls[i].auth = "notDetermined"

\* C7: a scheduleAlarm call for an alarm with zero enabled days calls neither
\* scheduleRecurringAlarm nor scheduleFixedAlarm, and no external schedule is
\* live for the alarm when it has returned.
C7_NoDaysLeavesNoSchedule ==
  \A i \in 1..Len(calls) :
    LET c == calls[i]
    IN (c.kind = "schedule" /\ c.pc = "done"
          /\ Len(toAlarmKitWeekdays(c.enabledDays)) = 0) =>
         /\ c.recurArgs = <<>> /\ c.fixedArgs = <<>>
         /\ LiveFor(c.id) = {}

C9_CancelLeavesUnscheduled ==
  \A i \in 1..Len(calls) :
    LET c == calls[i]
    IN (c.kind = "cancel" /\ c.pc = "done") =>
         /\ c.cancelled = IF c.onRecord # NoUUID THEN <<c.onRecord>> ELSE <<>>
         /\ alarmUUIDs[c.id] = NoUUID
         /\ LiveFor(c.id) = {}

\* C10: when cancelAllAlarms has returned (its native call having reported
\* success), no external schedule is live and the UUID map is empty.
C10_CancelAllLeavesNothing ==
  \A i \in 1..Len(calls) :
    LET c == calls[i]
    IN (c.kind = "cancelAll" /\ c.pc = "done" /\ c.reply = "true") =>
         /\ \A u \in UUIDs : live[u] = NoSched
         /\ \A a \in AlarmIds : alarmUUIDs[a] = NoUUID

\* C11: the cold start (the in-memory UUID map is empty, the persisted alarms
\* are rehydrated) invokes scheduleAlarm for every alarm whose isArmed is
\* true.
C11_ColdStartReschedulesArmed ==
  [][restarts' > restarts =>
       \A k \in 1..Len(alarms') :
         alarms'[k].isArmed =>
           \E i \in 1..Len(calls') :
             calls'[i].kind = "schedule" /\ calls'[i].id = alarms'[k].id]_vars

\* the active alarm is in the store and armed
ActiveIsArmed ==
  /\ activeAlarmId # NoId
  /\ \E k \in 1..Len(alarms) : alarms[k].id = activeAlarmId /\ alarms[k].isArmed

\* C12: completeDismiss calls scheduleAlarm for the active alarm when that
\* alarm is in the store and armed, and makes no scheduler call when it is
\* absent, deleted or disarmed; either way isRinging becomes false and
\* challengeStartTime null.
C12_CompleteDismissReschedules ==
  [][CompleteDismiss =>
       /\ isRinging' = FALSE
       /\ challengeStartTime' = "null"
       /\ IF ActiveIsArmed
            THEN /\ Len(calls') = Len(calls) + 1
                 /\ LET c == calls'[Len(calls')]
                    IN /\ c.kind = "schedule"
                       /\ c.id = activeAlarmId
                       /\ \E k \in 1..Len(alarms) :
                            /\ alarms[k].id = c.id
                            /\ alarms[k].time = c.time
                            /\ alarms[k].enabledDays = c.enabledDays
            ELSE /\ Len(calls') = Len(calls)
                 /\ \A i \in 1..Len(calls) : InFlight(calls'[i]) => calls'[i] = calls[i]]_vars

\* completeDismiss has just rescheduled the active alarm
C12_Witness ==
  /\ ~isRinging
  /\ challengeStartTime = "null"
  /\ \E i \in 1..Len(calls) :
       /\ calls[i].by = "completeDismiss"
       /\ calls[i].kind = "schedule"
       /\ calls[i].id = activeAlarmId

\* the scheduleFixedAlarm calls an invocation has issued
OneShotCalls(c) == Cardinality({k \in 1..Len(c.log) : c.log[k] = "fixed!"})

\* C13: a scheduleAlarm call whose primary schedule was accepted has, when it
\* returns, issued RETRIGGER_COUNT further one-shot schedules (the re-trigger
\* chain at +2, +4, ..., +20 minutes) besides the primary one.
C13_RetriggersFollowPrimary ==
  \A i \in 1..Len(calls) :
    LET c == calls[i]
        primary == IF c.fixedArgs # <<>> THEN 1 ELSE 0
    IN (c.kind = "schedule" /\ c.pc = "done" /\ c.accepted) =>
         OneShotCalls(c) - primary = RETRIGGER_COUNT

\* the re-trigger one-shots registered with the OS under a UUID that a
\* completed scheduleAlarm call recorded in the list of alarm a
RetriggersLiveFor(a) ==
  {x \in rtLive : rtMinted[x[1] - MaxUUID].id = a /\ rtMinted[x[1] - MaxUUID].recorded}

\* C14: the re-trigger list of an alarm survives a restart: a cancelAlarm(id)
\* made after the restart (the saved lists having been loaded) cancels every
\* re-trigger schedule of the alarm and clears its list, so that no
\* re-trigger schedule of the alarm is live when it has returned.
C14_CancelAfterRestartClearsRetriggers ==
  (restarts > 0 /\ loaded /\ rt.kind = "cancel" /\ rt.pc = "done") =>
    /\ retriggerUUIDs[rt.id] = <<>>
    /\ RetriggersLiveFor(rt.id) = {}

\* invocation i resolves the UUID of its alarm in this step (scheduleAlarm
\* goes on after a granted authorization and calls getUUID)
Resolves(i) ==
  /\ calls[i].pc = "auth"
  /\ calls'[i].auth = "authorized"

EnabledIndices(enabledDays) == {i \in 0..6 : enabledDays[i + 1]}

\* the call of getNextTriggerDate has returned
Returned(fn) == probe.fn = fn /\ probe.pc = "returned"

\* C16: getNextTriggerDate returns none only when all seven days are
\* disabled; when the single enabled day is today's weekday and hour:minute
\* has passed today it returns the date 7 days later at hour:minute.
C16_NoneOnlyWhenNoDayEnabled ==
  Returned("getNextTriggerDate") =>
    /\ probe.date = NoDate <=> EnabledIndices(probe.enabledDays) = {}
    /\ (/\ EnabledIndices(probe.enabledDays) = {probe.now.day % 7}
        /\ probe.hour * 60 + probe.minute < probe.now.hour * 60 + probe.now.minute)
         => probe.date = [day |-> probe.now.day + 7, hour |-> probe.hour,
                          minute |-> probe.minute]

\* the instant of hour:minute on day d, in minutes (day 0 is a Monday)
Instant(d, hour, minute) == d * 1440 + hour * 60 + minute

\* C17: a date returned by getNextTriggerDate is strictly after now, at the
\* alarm's hour:minute, on an enabled weekday, and no enabled day's
\* hour:minute lies strictly between now and it; Monday+Wednesday 07:00 on a
\* Tuesday at 08:00 gives Wednesday 07:00.
C17_NextTriggerIsEarliestEnabled ==
  Returned("getNextTriggerDate") =>
    LET nowAt == Instant(probe.now.day, probe.now.hour, probe.now.minute)
        dateAt == Instant(probe.date.day, probe.date.hour, probe.date.minute)
    IN /\ probe.date # NoDate =>
            /\ dateAt > nowAt
            /\ probe.date.hour = probe.hour /\ probe.date.minute = probe.minute
            /\ probe.date.day % 7 \in EnabledIndices(probe.enabledDays)
            /\ \A d \in probe.now.day..probe.date.day :
                 (/\ d % 7 \in EnabledIndices(probe.enabledDays)
                  /\ Instant(d, probe.hour, probe.minute) > nowAt)
                   => Instant(d, probe.hour, probe.minute) >= dateAt
       /\ (/\ probe.enabledDays = MonWed
           /\ probe.now = [day |-> 1, hour |-> 8, minute |-> 0]
           /\ probe.hour = 7 /\ probe.minute = 0)
            => probe.date = [day |-> 2, hour |-> 7, minute |-> 0]

\* getNextTriggerDate has skipped today, whose hour:minute had passed, and
\* returned a later day
C17_Witness ==
  /\ Returned("getNextTriggerDate")
  /\ probe.date # NoDate
  /\ probe.now.day % 7 \in EnabledIndices(probe.enabledDays)
  /\ probe.date.day > probe.now.day

\* C18: toAlarmKitWeekdays maps index 0..6 (Mon..Sun) to 2,3,4,5,6,7,1, a
\* bijection onto 1..7, and returns exactly the images of the enabled
\* indices, one entry per enabled day.
C18_WeekdaysAreImagesOfEnabled ==
  Returned("toAlarmKitWeekdays") =>
    LET image(i) == IF i = 6 THEN 1 ELSE i + 2
        result == {probe.weekdays[k] : k \in 1..Len(probe.weekdays)}
    IN /\ result = {image(i) : i \in EnabledIndices(probe.enabledDays)}
       /\ Len(probe.weekdays) = Cardinality(EnabledIndices(probe.enabledDays))
       /\ Cardinality(result) = Len(probe.weekdays)
       /\ {image(i) : i \in 0..6} = 1..7
       /\ \A i \in 0..6 :
            probe.enabledDays = [j \in 1..7 |-> j = i + 1] => probe.weekdays = <<image(i)>>

\* toAlarmKitWeekdays has returned the weekdays of a vector with Sunday and
\* another day enabled
C18_Witness ==
  /\ Returned("toAlarmKitWeekdays")
  /\ probe.enabledDays[7]
  /\ Len(probe.weekdays) > 1
  /\ probe.weekdays[Len(probe.weekdays)] = 1

C20_HitClassification ==
  LET elapsed == rhythm.tap.elapsed
      delta == IF elapsed >= BeatInterval THEN elapsed - BeatInterval
               ELSE BeatInterval - elapsed
      result == rhythm.tap.result
  IN  result # "none" =>
        /\ delta < 50 => result = "perfect"
        /\ (50 <= delta /\ delta < 120) => result = "good"
        /\ delta >= 120 => result = "miss"
        /\ delta \in {0, 49} => result = "perfect"
        /\ delta \in {50, 119} => result = "good"
        /\ delta = 120 => result = "miss"

\* a tap exactly 50 ms before the beat was handled and classified good
C20_Witness ==
  /\ rhythm.tap.result = "good"
  /\ BeatInterval - rhythm.tap.elapsed = 50

\* C21: in every beatmap generateBeatmap returns, each pair of consecutive
\* targets is at Euclidean distance within [0.2, 0.6], the targets placed by
\* the fallback branch included: whenever a target is pushed after another,
\* the squared distance between the two is within [0.04, 0.36].
C21_ConsecutiveTargetsSpaced ==
  [][(probe.fn = "generateBeatmap" /\ probe.previousTarget # NoTarget
        /\ probe'.i = probe.i + 1)
       => LET a == probe.previousTarget
              b == probe'.previousTarget
              squared == (a.x - b.x) * (a.x - b.x) + (a.y - b.y) * (a.y - b.y)
          IN  400 <= squared /\ squared <= 3600]_vars

\* C22: every target of a generated beatmap has both coordinates within
\* [0.15, 0.85], whether placed as first target, by an accepted random
\* attempt or by the fallback branch.
C22_TargetsInsidePadding ==
  (probe.fn = "generateBeatmap" /\ probe.previousTarget # NoTarget) =>
    /\ 15 <= probe.previousTarget.x /\ probe.previousTarget.x <= 85
    /\ 15 <= probe.previousTarget.y /\ probe.previousTarget.y <= 85

\* the fallback branch projected a target past the right edge and clamped it
C22_Witness ==
  /\ probe.fn = "generateBeatmap"
  /\ probe.previousTarget.how = "fallback"
  /\ probe.previousTarget.x = 85

C24_DurationIsLastPlusBeat ==
  Returned("generateBeatmap") =>
    LET map == probe.beatmap
    IN  map.duration * map.bpm = map.times[Len(map.times)] * map.bpm + 60000

\* C24 (amended): the duration is the last target's time plus one beat
\* interval rounded to the nearest millisecond, halves upwards:
\* -1/2 < duration - (targets[last].time + 60000/bpm) <= 1/2.
C24_DurationIsRoundedLastPlusBeat ==
  Returned("generateBeatmap") =>
    LET map == probe.beatmap
        twice == 2 * ((map.duration - map.times[Len(map.times)]) * map.bpm - 60000)
    IN  -map.bpm < twice /\ twice <= map.bpm

\* a level 3 beatmap was returned: its beat interval 60000/90 is no whole number
C24_Witness ==
  /\ Returned("generateBeatmap")
  /\ probe.beatmap.bpm = 90
  /\ probe.beatmap.duration # 0

\* how far a generateBeatmap call is from returning
GeneratorMeasure(p) ==
  IF p.pc = "called" THEN 2 + 9 * 103
  ELSE IF p.pc = "returned" THEN 0
  ELSE 1 + (8 - p.i) * 103 + (IF p.pc = "loop" THEN 102 ELSE 100 - p.attempt)

C26_MathProblemIdentityHolds ==
  Returned("generateMathProblem") =>
    LET d == probe.difficulty
        level == IF d <= 1 THEN 1 ELSE IF d >= 5 THEN 5 ELSE d
        p == probe.problem
        forms == <<{"additionTwoDigit"},
                   {"additionThreePlusTwoDigit", "multiplicationTwoByOne"},
                   {"multiplicationTwoByTwo", "subtractionThreeMinusTwo"},
                   {"multiplicationThreeByTwo", "algebraSimple"},
                   {"multiplicationThreeByTwoHard", "algebraHard", "divisionClean"}>>
    IN  /\ p.difficulty = level
        /\ p.form \in forms[level]
        /\ p.op \in {"+", "-", "*", "ax+b=c", "/"}
        /\ p.op = "+" => p.answer = p.a + p.b
        /\ p.op = "-" => p.answer = p.a - p.b
        /\ p.op = "*" => p.answer = p.a * p.b
        /\ p.op = "ax+b=c" => p.a * p.answer + p.b = p.c
        /\ p.op = "/" => p.b * p.answer = p.a

\* a subtraction problem was returned for difficulty 3
C26_Witness ==
  /\ Returned("generateMathProblem")
  /\ probe.difficulty = 3
  /\ probe.problem.op = "-"

\* C27: checkAnswer(problem, userAnswer) is true if and only if
\* |problem.answer - userAnswer| < 0.01: false at distance 0.01 or more,
\* exactly 0.01 included, so for integer user input it is true exactly when
\* the input equals the answer. (userAnswer is in hundredths.)
C27_CheckAnswerWithinHundredth ==
  Returned("checkAnswer") =>
    LET diff == probe.problem.answer * 100 - probe.userAnswer
        distance == IF diff < 0 THEN -diff ELSE diff
    IN  /\ probe.result <=> distance < 1
        /\ distance >= 1 => ~probe.result
        /\ probe.userAnswer % 100 = 0 =>
             (probe.result <=> probe.userAnswer \div 100 = probe.problem.answer)

\* checkAnswer returned false for a userAnswer exactly 0.01 above the answer
C27_Witness ==
  /\ Returned("checkAnswer")
  /\ probe.userAnswer = probe.problem.answer * 100 + 1
  /\ ~probe.result

\* C28: in the math challenge a new problem is generated when the challenge
\* mounts and after every wrong answer: the mounted component shows a
\* generated problem, and a wrong submission replaces the problem shown by a
\* freshly generated one.
C28_WrongAnswerReplacesProblem ==
  [][/\ MathMount => mathChallenge'.generated = 1
     /\ (MathHandleSubmit /\ mathChallenge'.submitted = "wrong") =>
          mathChallenge'.generated = mathChallenge.generated + 1]_vars

\* C29: getRandomProblem(excludeIds) always returns an entry of the catalog,
\* and never one whose id is in excludeIds unless excludeIds covers every
\* catalog id, in which case it returns some catalog entry (never no problem).
C29_RandomProblemHonoursExclusion ==
  Returned("getRandomProblem") =>
    LET excluded == {probe.excludeIds.ids[k] : k \in DOMAIN probe.excludeIds.ids}
        catalog == {PROBLEM_BANK[k] : k \in DOMAIN PROBLEM_BANK}
    IN  /\ probe.problem \in catalog
        /\ probe.problem.id \in excluded => \A p \in catalog : p.id \in excluded

\* every id was excluded and a catalog entry was returned all the same
C29_Witness ==
  /\ Returned("getRandomProblem")
  /\ Len(probe.excludeIds.ids) >= 35
  /\ probe.problem.id = "scope-03"

\* C30: every problem of the code problem catalog has exactly 4 options and a
\* correctIndex in 0..3, and no two catalog problems share an id (the catalog
\* getRandomProblem draws from).
C30_CatalogWellFormed ==
  probe.fn = "getRandomProblem" =>
    /\ \A k \in DOMAIN PROBLEM_BANK :
         /\ PROBLEM_BANK[k].options = 4
         /\ PROBLEM_BANK[k].correctIndex \in 0..3
    /\ \A j, k \in DOMAIN PROBLEM_BANK :
         PROBLEM_BANK[j].id = PROBLEM_BANK[k].id => j = k

\* a problem of the catalog was returned, the last of its 35
C30_Witness ==
  /\ Returned("getRandomProblem")
  /\ ~probe.excludeIds.given
  /\ Len(PROBLEM_BANK) = 35
  /\ probe.problem = PROBLEM_BANK[35]

\* C31: every tap on the current target whose elapsed time is less than 120 ms
\* away from the beat interval, before or after it, is counted as a hit and
\* adds one to the consecutive-hit counter, whether handleTap classifies it or
\* returns early because the approach animation has ended untapped at
\* elapsed = beatInterval and its miss animation is running (the taps that
\* follow a tap on the same target, or the completion of the challenge, are
\* left out).
C31_InWindowTapIsHit ==
  [][(\/ HandleTap /\ Abs(rhythm'.tap.elapsed - BeatInterval) < GOOD_WINDOW_MS
      \/ /\ HandleTapIgnored
         /\ ~rhythm.completedRef
         /\ rhythm.isMissAnimating /\ rhythm.endedAt = BeatInterval
         /\ Abs(rhythm'.dropped.elapsed - BeatInterval) < GOOD_WINDOW_MS)
       => rhythm'.consecutiveHits = rhythm.consecutiveHits + 1]_vars

C33_NoOrphanSchedule ==
  (Quiescent /\ restarts = 0) =>
    \A u \in UUIDs :
      live[u] # NoSched => \E a \in AlarmIds : alarmUUIDs[a] = u

\* C34: whenever no scheduler call is in flight, an alarm id has an entry in
\* the primary UUID map only if an external schedule is live under that UUID.
C34_MappingOnlyForLiveSchedule ==
  Quiescent =>
    \A a \in AlarmIds :
      alarmUUIDs[a] # NoUUID => live[alarmUUIDs[a]] # NoSched

\* C32: once every in-flight scheduler call has completed, the recurring
\* schedule registered under the UUID on record for an armed alarm carries
\* the hour, the minute and the weekday set stored for the alarm, whatever
\* number of updateAlarm calls were issued without waiting for each other.
C32_LiveScheduleCarriesLatestUpdate ==
  Quiescent =>
    \A k \in 1..Len(alarms) :
      LET a == alarms[k]
          u == alarmUUIDs[a.id]
      IN  (a.isArmed /\ u # NoUUID /\ live[u].kind = "recurring")
            => /\ live[u].hour = a.time.hour
               /\ live[u].minute = a.time.minute
               /\ live[u].weekdays = toAlarmKitWeekdays(a.enabledDays)

\* C35: when the app is opened by a fired alarm, checkAlarmLaunch makes active
\* the alarm whose external schedule fired, and completeDismiss reschedules
\* the active alarm.
C35_ActiveAlarmIsTheFiredOne ==
  [][/\ \A u \in UUIDs : LaunchedBy(u) => activeAlarmId' = minted[u]
     /\ (CompleteDismiss /\ Len(calls') > Len(calls))
          => calls'[Len(calls')].id = activeAlarmId]_vars

\* the sounds that are loaded and looping
Playing == {k \in 1..Len(soundManager.sounds) : soundManager.sounds[k] = "playing"}

\* C36: under any interleaving of playAlarm and stop calls, at most one sound
\* is loaded and at most one is playing, and when a stop call has completed
\* and no playAlarm call has started since, no sound is playing.
C36_OneSoundAndSilentAfterStop ==
  /\ Cardinality({k \in 1..Len(soundManager.sounds) :
                    soundManager.sounds[k] # "unloaded"}) <= 1
  /\ Cardinality(Playing) <= 1
  /\ soundManager.quiet => Playing = {}

\* the ids of the catalog
CatalogIds == {AllIds[k] : k \in DOMAIN AllIds}

\* C40: in CodeChallenge a press while the flash is active changes nothing; a
\* correct press invokes onComplete and leaves the shown problem and the used
\* list as they are; a wrong press adds the id of the shown problem to the
\* used list, and the problem shown next has an id outside the used list
\* unless every catalog id is in it.
C40_WrongPressShowsUnusedProblem ==
  [][/\ codeChallenge.isFlashing
          => /\ codeChallenge'.problem = codeChallenge.problem
             /\ codeChallenge'.usedIds = codeChallenge.usedIds
             /\ codeChallenge'.completions = codeChallenge.completions
     /\ codeChallenge'.completions # codeChallenge.completions
          => /\ codeChallenge'.completions = codeChallenge.completions + 1
             /\ codeChallenge'.problem = codeChallenge.problem
             /\ codeChallenge'.usedIds = codeChallenge.usedIds
     /\ (codeChallenge.mounted /\ ~codeChallenge.isFlashing /\ codeChallenge'.isFlashing)
          => /\ codeChallenge'.usedIds
                  = codeChallenge.usedIds \cup {codeChallenge.problem.id}
             /\ codeChallenge'.problem.id \in CatalogIds
             /\ \/ codeChallenge'.problem.id \notin codeChallenge'.usedIds
                \/ codeChallenge'.usedIds = CatalogIds
     /\ (codeChallenge.mounted /\ codeChallenge'.problem # codeChallenge.problem)
          => ~codeChallenge.isFlashing /\ codeChallenge'.isFlashing]_vars

\* every problem of the catalog has been answered wrongly and the flash of the
\* last wrong press is active
C40_Witness ==
  /\ codeChallenge.usedIds = CatalogIds
  /\ codeChallenge.isFlashing
  /\ codeChallenge.problem.id \in CatalogIds


====
